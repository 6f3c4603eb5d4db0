--------------------------- MODULE RunStoreProofs ---------------------------
(***************************************************************************)
(* Theorems about the run directories and the index over them, for any     *)
(* number of runs and commands, whatever fails, and whatever dies halfway. *)
(*                                                                         *)
(* StoreInv says that nothing is known of a run before it was written      *)
(* (Traced), and that what is gone from the disk, or chosen to go, is too  *)
(* old or superseded by enough newer runs on disk (NewestKept): the second *)
(* is what makes concurrent prunes safe, since the rows they count may     *)
(* belong to runs another one has removed already.  Unedited adds, as long *)
(* as no bundle is edited under a command, that rows and files agree       *)
(* version for version (Truthful), that every command still has before it  *)
(* each bundle whose row is out of date (Informed), and what a command     *)
(* that nobody disturbs has left to do (Steady).                           *)
(***************************************************************************)
EXTENDS RunStore, FiniteSetTheorems, TLAPS

-----------------------------------------------------------------------------
(* The invariant of the store                                              *)

WriterStates == [at : {"running", "written", "stamped", "done"},
                 verdict : {"clean", "invalid", None}, stamp : Nat]

CommandStates ==
    [at : {"idle", "scan", "refresh", "read", "stamp", "record", "recheck", "forget",
           "reconciled", "prune", "prune_forget"},
     disk : SUBSET Runs, todo : SUBSET Runs, run : Runs \cup {None},
     read : Content \cup {None}, stamp : Nat]

StoreTyped ==
    /\ writer \in [Runs -> WriterStates]
    /\ bundle \in [Runs -> Content \cup {None}]
    /\ row \in [Runs -> Rows \cup {None}]
    /\ cmd \in [Commands -> CommandStates]
    /\ operator \in [edits : Nat, removals : Nat, cutoff : 0..NRuns]
    /\ calm \in [Commands -> BOOLEAN]
    /\ \A r \in Runs : writer[r].at \in {"written", "stamped"} =>
         writer[r].verdict \in {"clean", "invalid"}

\* The writer of r has done with the directory, or never got to it.
Left(r) == writer[r].at # "running"

\* A command holds what it read of a run.
Holds(c) == c.at \in {"stamp", "record"}

\* A command that is about to prune, or in the middle of it.
Prunes(c) == c.at \in {"prune", "prune_forget"}

\* What a command at c goes by is true: the runs it has met have been written,
\* it holds a bundle it could read, and the run it is about to forget is gone
\* for good.
Fits(c) ==
    /\ c.at \in {"read", "stamp", "record", "forget", "prune_forget"} => c.run \in Runs
    /\ Holds(c) => c.read \in Content /\ c.read.verdict # "unreadable"
    /\ \A r \in c.disk : Left(r)
    /\ c.at # "scan" => \A r \in c.todo : Left(r)
    /\ c.run # None => Left(c.run)
    /\ c.at \in {"forget", "prune_forget"} => ~OnDisk(c.run)

Traced ==
    /\ \A r \in Runs : OnDisk(r) \/ Known(r) => Left(r)
    /\ \A p \in Commands : Fits(cmd[p])

\* Enough newer results are on disk.
Window(r) == {newer \in (r + 1)..NRuns : OnDisk(newer)}
Superseded(r) == Cardinality(Window(r)) >= KeepLast

\* A run that was on disk: it has a row, or somebody is about to write one.
WasThere(r) ==
    \/ Known(r)
    \/ writer[r].at \in {"written", "stamped"}
    \/ \E p \in Commands : Holds(cmd[p]) /\ cmd[p].run = r

\* What is gone, or about to be removed, is superseded or too old.
NewestKept ==
    operator.removals = 0 => \A r \in Runs : r > operator.cutoff =>
        /\ WasThere(r) /\ ~OnDisk(r) => Superseded(r)
        /\ \A p \in Commands : Prunes(cmd[p]) /\ r \in cmd[p].todo => Superseded(r)

StoreInv == StoreTyped /\ Traced /\ NewestKept

\* A row, and what a writer holds, describe the file as long as there is one:
\* the same version has the same verdict, and the file's is never the older.
Truthful ==
    \A r \in Runs :
        /\ Known(r) =>
             /\ row[r].stamp \in {0, row[r].of}
             /\ OnDisk(r) => row[r].of <= bundle[r].version
             /\ OnDisk(r) /\ row[r].of = bundle[r].version =>
                  row[r].verdict = bundle[r].verdict
        /\ writer[r].at \in {"written", "stamped"} /\ OnDisk(r) =>
             bundle[r] = [version |-> 1, verdict |-> writer[r].verdict]
        /\ writer[r].at = "stamped" => writer[r].stamp \in {0, 1}

\* The bundles a command at c has still to look at, and the rows.
StillToRead(c) ==
    CASE c.at = "scan" -> c.todo \cup c.disk
      [] c.at = "refresh" -> c.todo
      [] c.at \in {"read", "stamp", "record"} -> c.todo \cup {c.run}
      [] OTHER -> {}

StillToForget(c) == IF c.at = "forget" THEN c.todo \cup {c.run} ELSE c.todo

Readable(r) == OnDisk(r) /\ bundle[r].verdict # "unreadable"
UpToDate(r) == Known(r) /\ row[r].of = bundle[r].version
Stale(r) == Readable(r) /\ Known(r) /\ ~UpToDate(r)

\* Nothing is edited while a command is under way: what it read is what is
\* there, it reads again every bundle whose row is out of date, and it does not
\* prune an invalid result.
Informed(c) ==
    /\ Holds(c) => /\ OnDisk(c.run) => bundle[c.run] = c.read
                   /\ c.at = "record" => c.stamp \in {0, c.read.version}
    /\ c.at # "idle" => \A r \in Runs : Stale(r) => r \in StillToRead(c)
    /\ Prunes(c) => \A r \in c.todo : OnDisk(r) => bundle[r].verdict # "invalid"

\* What a command that nobody disturbs has still to do.
Steady(c) ==
    /\ c.at \notin {"idle", "prune", "prune_forget"}
    /\ \A r \in c.disk : OnDisk(r)
    /\ \A r \in Runs : Readable(r) /\ ~UpToDate(r) => r \in StillToRead(c)
    /\ c.at \in {"recheck", "forget", "reconciled"} =>
         \A r \in Runs : Known(r) /\ ~OnDisk(r) => r \in StillToForget(c)
    /\ c.at = "reconciled" => c.todo = {}

Unedited ==
    /\ Truthful
    /\ \A p \in Commands : Informed(cmd[p]) /\ (calm[p] => Steady(cmd[p]))

-----------------------------------------------------------------------------
(* Types                                                                   *)

LEMMA LeastOfASet ==
    ASSUME NEW S \in SUBSET Nat, S # {}
    PROVE  \E least \in S : \A n \in S : least <= n
<1> DEFINE less == OpToRel(<, Nat)
<1>1. IsWellFoundedOn(less, Nat)
  BY NatLessThanWellFounded
<1>2. PICK least \in S : \A n \in S : ~(<<n, least>> \in less)
  <2> HIDE DEF less
  <2> QED BY <1>1, WFMin
<1>3. \A n \in S : ~(n < least)
  BY <1>2, Zenon DEF OpToRel
<1> HIDE DEF less
<1> QED BY <1>3

LEMMA NoneIsNothing == None \notin Runs /\ None \notin Content /\ None \notin Rows
BY RunStoreAssumption DEF Runs

LEMMA GreatestOfASet ==
    ASSUME NEW S \in SUBSET Runs, S # {}
    PROVE  \E greatest \in S : \A n \in S : greatest >= n
<1> DEFINE T == {n \in Nat : \E x \in S : n = NRuns - x}
<1>1. \A n \in S : NRuns - n \in T
  BY RunStoreAssumption DEF Runs
<1>2. PICK least \in T : \A n \in T : least <= n
  <2>1. T \in SUBSET Nat /\ T # {}
    BY <1>1
  <2> QED BY <2>1, LeastOfASet
<1>3. PICK x \in S : least = NRuns - x
  BY <1>2
<1> QED BY <1>1, <1>2, <1>3, RunStoreAssumption DEF Runs

LEMMA LeastAndGreatest ==
    ASSUME NEW S \in SUBSET Runs, S # {}
    PROVE  /\ Min(S) \in S /\ \A x \in S : Min(S) <= x
           /\ Max(S) \in S /\ \A x \in S : Max(S) >= x
<1>1. \E least \in S : \A n \in S : least <= n
  BY LeastOfASet DEF Runs
<1>2. \E greatest \in S : \A n \in S : greatest >= n
  BY GreatestOfASet
<1> QED BY <1>1, <1>2 DEF Min, Max

LEMMA IdentityIsANumber ==
    ASSUME StoreTyped, NEW r \in Runs
    PROVE  Identity(r) \in Nat
BY DEF StoreTyped, Identity, OnDisk, Content

LEMMA InitTyped == Init => StoreTyped
BY RunStoreAssumption DEF Init, StoreTyped, WriterStates, CommandStates, NotRunning, Runs

-----------------------------------------------------------------------------
(* What the actions do                                                     *)

Doing(at, disk, todo, run, read, stamp) ==
    [at |-> at, disk |-> disk, todo |-> todo, run |-> run, read |-> read, stamp |-> stamp]

\* Command p comes to be at c, and no other moves.
Moves(p, c) ==
    /\ cmd' \in [Commands -> CommandStates]
    /\ cmd'[p] = c
    /\ \A q \in Commands : q # p => cmd'[q] = cmd[q]

\* One lemma for each action of a command: when it may be taken and where it
\* leaves the command.
LEMMA BeginMoves ==
    ASSUME StoreTyped, Traced, NEW p \in Commands, Begin(p)
    PROVE  /\ cmd[p].at = "idle"
           /\ Moves(p, Doing("scan", {}, Runs,
                          None, None, 0))
<1> DEFINE c == Doing("scan", {}, Runs, None, None, 0)
<1>1. cmd[p] \in CommandStates /\ DOMAIN cmd = Commands /\ cmd[p].at = "idle"
  BY DEF StoreTyped, Begin
<1>3. cmd'[p] = c
  BY <1>1 DEF Begin, NotRunning, CommandStates, Doing
<1>4. c \in CommandStates
  BY <1>1 DEF CommandStates, Doing
<1>5. /\ cmd' \in [Commands -> CommandStates]
      /\ \A q \in Commands : q # p => cmd'[q] = cmd[q]
  BY <1>1, <1>3, <1>4 DEF Begin, NotRunning, StoreTyped
<1> QED BY <1>1, <1>3, <1>5 DEF Moves

LEMMA ScanEntryMoves ==
    ASSUME StoreTyped, Traced, NEW p \in Commands, NEW r \in Runs, ScanEntry(p, r)
    PROVE  /\ cmd[p].at = "scan" /\ r \in cmd[p].todo
           /\ Moves(p, Doing("scan", IF OnDisk(r) THEN cmd[p].disk \cup {r} ELSE cmd[p].disk, cmd[p].todo \ {r},
                          cmd[p].run, cmd[p].read, cmd[p].stamp))
<1> DEFINE c == Doing("scan", IF OnDisk(r) THEN cmd[p].disk \cup {r} ELSE cmd[p].disk, cmd[p].todo \ {r}, cmd[p].run, cmd[p].read, cmd[p].stamp)
<1>1. cmd[p] \in CommandStates /\ DOMAIN cmd = Commands /\ cmd[p].at = "scan" /\ r \in cmd[p].todo
  BY DEF StoreTyped, ScanEntry
<1>3. cmd'[p] = c
  BY <1>1 DEF ScanEntry, CommandStates, Doing
<1>4. c \in CommandStates
  BY <1>1 DEF CommandStates, Doing
<1>5. /\ cmd' \in [Commands -> CommandStates]
      /\ \A q \in Commands : q # p => cmd'[q] = cmd[q]
  BY <1>1, <1>3, <1>4 DEF ScanEntry, StoreTyped
<1> QED BY <1>1, <1>3, <1>5 DEF Moves

LEMMA ScanEndsMoves ==
    ASSUME StoreTyped, Traced, NEW p \in Commands, ScanEnds(p)
    PROVE  /\ cmd[p].at = "scan" /\ cmd[p].todo = {}
           /\ Moves(p, Doing("refresh", cmd[p].disk, cmd[p].disk,
                          cmd[p].run, cmd[p].read, cmd[p].stamp))
<1> DEFINE c == Doing("refresh", cmd[p].disk, cmd[p].disk, cmd[p].run, cmd[p].read, cmd[p].stamp)
<1>1. cmd[p] \in CommandStates /\ DOMAIN cmd = Commands /\ cmd[p].at = "scan" /\ cmd[p].todo = {}
  BY DEF StoreTyped, ScanEnds
<1>3. cmd'[p] = c
  BY <1>1 DEF ScanEnds, CommandStates, Doing
<1>4. c \in CommandStates
  BY <1>1 DEF CommandStates, Doing
<1>5. /\ cmd' \in [Commands -> CommandStates]
      /\ \A q \in Commands : q # p => cmd'[q] = cmd[q]
  BY <1>1, <1>3, <1>4 DEF ScanEnds, StoreTyped
<1> QED BY <1>1, <1>3, <1>5 DEF Moves

LEMMA CheckRowMoves ==
    ASSUME StoreTyped, Traced, NEW p \in Commands, CheckRow(p)
    PROVE  \E least \in Runs :
               /\ cmd[p].at = "refresh" /\ least \in cmd[p].todo
               /\ \A r \in cmd[p].todo : least <= r
               /\ Moves(p, Doing(IF IsCurrent(least) THEN "refresh" ELSE "read", cmd[p].disk, cmd[p].todo \ {least},
                          IF IsCurrent(least) THEN None ELSE least, cmd[p].read, cmd[p].stamp))
<1> DEFINE least == Min(cmd[p].todo)
           c == Doing(IF IsCurrent(least) THEN "refresh" ELSE "read", cmd[p].disk, cmd[p].todo \ {least}, IF IsCurrent(least) THEN None ELSE least, cmd[p].read, cmd[p].stamp)
<1>1. cmd[p] \in CommandStates /\ DOMAIN cmd = Commands /\ cmd[p].at = "refresh"
  BY DEF StoreTyped, CheckRow
<1>2. /\ least \in cmd[p].todo /\ least \in Runs
      /\ \A r \in cmd[p].todo : least <= r
  BY <1>1, LeastAndGreatest DEF CheckRow, CommandStates
<1>3. cmd'[p] = c
  BY <1>1 DEF CheckRow, CommandStates, Doing
<1>4. c \in CommandStates
  BY <1>1, <1>2 DEF CommandStates, Doing
<1>5. /\ cmd' \in [Commands -> CommandStates]
      /\ \A q \in Commands : q # p => cmd'[q] = cmd[q]
  BY <1>1, <1>3, <1>4 DEF CheckRow, StoreTyped
<1>6. cmd[p].at = "refresh" /\ least \in cmd[p].todo
  BY <1>1, <1>2
<1>7. Moves(p, c)
  BY <1>3, <1>5 DEF Moves
<1> QED BY <1>2, <1>6, <1>7

LEMMA ReadBundleMoves ==
    ASSUME StoreTyped, Traced, NEW p \in Commands, ReadBundle(p)
    PROVE  /\ cmd[p].at = "read"
           /\ Moves(p, Doing(IF Readable(cmd[p].run) THEN "stamp" ELSE "refresh", cmd[p].disk, cmd[p].todo,
                          IF Readable(cmd[p].run) THEN cmd[p].run ELSE None, IF Readable(cmd[p].run) THEN bundle[cmd[p].run] ELSE cmd[p].read, cmd[p].stamp))
<1> DEFINE c == Doing(IF Readable(cmd[p].run) THEN "stamp" ELSE "refresh", cmd[p].disk, cmd[p].todo, IF Readable(cmd[p].run) THEN cmd[p].run ELSE None, IF Readable(cmd[p].run) THEN bundle[cmd[p].run] ELSE cmd[p].read, cmd[p].stamp)
<1>1. cmd[p] \in CommandStates /\ DOMAIN cmd = Commands /\ cmd[p].at = "read"
  BY DEF StoreTyped, ReadBundle
<1>2. Readable(cmd[p].run) => bundle[cmd[p].run] \in Content
  BY <1>1 DEF StoreTyped, Traced, Fits, Readable, OnDisk
<1>3. cmd'[p] = c
  BY <1>1 DEF ReadBundle, Readable, OnDisk, CommandStates, Doing
<1>4. c \in CommandStates
  BY <1>1, <1>2 DEF CommandStates, Doing
<1>5. /\ cmd' \in [Commands -> CommandStates]
      /\ \A q \in Commands : q # p => cmd'[q] = cmd[q]
  BY <1>1, <1>3, <1>4 DEF ReadBundle, Readable, OnDisk, StoreTyped
<1> QED BY <1>1, <1>3, <1>5 DEF Moves

LEMMA StampRowMoves ==
    ASSUME StoreTyped, Traced, NEW p \in Commands, StampRow(p)
    PROVE  /\ cmd[p].at = "stamp"
           /\ Moves(p, Doing("record", cmd[p].disk, cmd[p].todo,
                          cmd[p].run, cmd[p].read, Identity(cmd[p].run)))
<1> DEFINE c == Doing("record", cmd[p].disk, cmd[p].todo, cmd[p].run, cmd[p].read, Identity(cmd[p].run))
<1>1. cmd[p] \in CommandStates /\ DOMAIN cmd = Commands /\ cmd[p].at = "stamp"
  BY DEF StoreTyped, StampRow
<1>2. Identity(cmd[p].run) \in Nat
  BY <1>1, IdentityIsANumber DEF Traced, Fits
<1>3. cmd'[p] = c
  BY <1>1 DEF StampRow, CommandStates, Doing
<1>4. c \in CommandStates
  BY <1>1, <1>2 DEF CommandStates, Doing
<1>5. /\ cmd' \in [Commands -> CommandStates]
      /\ \A q \in Commands : q # p => cmd'[q] = cmd[q]
  BY <1>1, <1>3, <1>4 DEF StampRow, StoreTyped
<1> QED BY <1>1, <1>3, <1>5 DEF Moves

LEMMA RecordRowMoves ==
    ASSUME StoreTyped, Traced, NEW p \in Commands, RecordRow(p)
    PROVE  /\ cmd[p].at = "record"
           /\ Moves(p, Doing("refresh", cmd[p].disk, cmd[p].todo,
                          None, None, 0))
<1> DEFINE c == Doing("refresh", cmd[p].disk, cmd[p].todo, None, None, 0)
<1>1. cmd[p] \in CommandStates /\ DOMAIN cmd = Commands /\ cmd[p].at = "record"
  BY DEF StoreTyped, RecordRow
<1>3. cmd'[p] = c
  BY <1>1 DEF RecordRow, CommandStates, Doing
<1>4. c \in CommandStates
  BY <1>1 DEF CommandStates, Doing
<1>5. /\ cmd' \in [Commands -> CommandStates]
      /\ \A q \in Commands : q # p => cmd'[q] = cmd[q]
  BY <1>1, <1>3, <1>4 DEF RecordRow, StoreTyped
<1> QED BY <1>1, <1>3, <1>5 DEF Moves

LEMMA ListKnownMoves ==
    ASSUME StoreTyped, Traced, NEW p \in Commands, ListKnown(p)
    PROVE  /\ cmd[p].at = "refresh" /\ cmd[p].todo = {}
           /\ Moves(p, Doing("recheck", {}, {r \in Runs : Known(r)} \ cmd[p].disk,
                          None, cmd[p].read, cmd[p].stamp))
<1> DEFINE c == Doing("recheck", {}, {r \in Runs : Known(r)} \ cmd[p].disk, None, cmd[p].read, cmd[p].stamp)
<1>1. cmd[p] \in CommandStates /\ DOMAIN cmd = Commands /\ cmd[p].at = "refresh" /\ cmd[p].todo = {}
  BY DEF StoreTyped, ListKnown
<1>3. cmd'[p] = c
  BY <1>1 DEF ListKnown, CommandStates, Doing
<1>4. c \in CommandStates
  BY <1>1 DEF CommandStates, Doing
<1>5. /\ cmd' \in [Commands -> CommandStates]
      /\ \A q \in Commands : q # p => cmd'[q] = cmd[q]
  BY <1>1, <1>3, <1>4 DEF ListKnown, StoreTyped
<1> QED BY <1>1, <1>3, <1>5 DEF Moves

LEMMA RecheckMoves ==
    ASSUME StoreTyped, Traced, NEW p \in Commands, Recheck(p)
    PROVE  \E newest \in Runs :
               /\ cmd[p].at = "recheck" /\ newest \in cmd[p].todo
               /\ \A r \in cmd[p].todo : newest >= r
               /\ Moves(p, Doing(IF OnDisk(newest) THEN "recheck" ELSE "forget", cmd[p].disk, cmd[p].todo \ {newest},
                          IF OnDisk(newest) THEN None ELSE newest, cmd[p].read, cmd[p].stamp))
<1> DEFINE newest == Max(cmd[p].todo)
           c == Doing(IF OnDisk(newest) THEN "recheck" ELSE "forget", cmd[p].disk, cmd[p].todo \ {newest}, IF OnDisk(newest) THEN None ELSE newest, cmd[p].read, cmd[p].stamp)
<1>1. cmd[p] \in CommandStates /\ DOMAIN cmd = Commands /\ cmd[p].at = "recheck"
  BY DEF StoreTyped, Recheck
<1>2. /\ newest \in cmd[p].todo /\ newest \in Runs
      /\ \A r \in cmd[p].todo : newest >= r
  BY <1>1, LeastAndGreatest DEF Recheck, CommandStates
<1>3. cmd'[p] = c
  BY <1>1 DEF Recheck, CommandStates, Doing
<1>4. c \in CommandStates
  BY <1>1, <1>2 DEF CommandStates, Doing
<1>5. /\ cmd' \in [Commands -> CommandStates]
      /\ \A q \in Commands : q # p => cmd'[q] = cmd[q]
  BY <1>1, <1>3, <1>4 DEF Recheck, StoreTyped
<1>6. cmd[p].at = "recheck" /\ newest \in cmd[p].todo
  BY <1>1, <1>2
<1>7. Moves(p, c)
  BY <1>3, <1>5 DEF Moves
<1> QED BY <1>2, <1>6, <1>7

LEMMA ForgetMoves ==
    ASSUME StoreTyped, Traced, NEW p \in Commands, Forget(p)
    PROVE  /\ cmd[p].at = "forget"
           /\ Moves(p, Doing("recheck", cmd[p].disk, cmd[p].todo,
                          None, cmd[p].read, cmd[p].stamp))
<1> DEFINE c == Doing("recheck", cmd[p].disk, cmd[p].todo, None, cmd[p].read, cmd[p].stamp)
<1>1. cmd[p] \in CommandStates /\ DOMAIN cmd = Commands /\ cmd[p].at = "forget"
  BY DEF StoreTyped, Forget
<1>3. cmd'[p] = c
  BY <1>1 DEF Forget, CommandStates, Doing
<1>4. c \in CommandStates
  BY <1>1 DEF CommandStates, Doing
<1>5. /\ cmd' \in [Commands -> CommandStates]
      /\ \A q \in Commands : q # p => cmd'[q] = cmd[q]
  BY <1>1, <1>3, <1>4 DEF Forget, StoreTyped
<1> QED BY <1>1, <1>3, <1>5 DEF Moves

LEMMA ReconciledMoves ==
    ASSUME StoreTyped, Traced, NEW p \in Commands, Reconciled(p)
    PROVE  /\ cmd[p].at = "recheck" /\ cmd[p].todo = {}
           /\ Moves(p, Doing("reconciled", cmd[p].disk, cmd[p].todo,
                          cmd[p].run, cmd[p].read, cmd[p].stamp))
<1> DEFINE c == Doing("reconciled", cmd[p].disk, cmd[p].todo, cmd[p].run, cmd[p].read, cmd[p].stamp)
<1>1. cmd[p] \in CommandStates /\ DOMAIN cmd = Commands /\ cmd[p].at = "recheck" /\ cmd[p].todo = {}
  BY DEF StoreTyped, Reconciled
<1>3. cmd'[p] = c
  BY <1>1 DEF Reconciled, CommandStates, Doing
<1>4. c \in CommandStates
  BY <1>1 DEF CommandStates, Doing
<1>5. /\ cmd' \in [Commands -> CommandStates]
      /\ \A q \in Commands : q # p => cmd'[q] = cmd[q]
  BY <1>1, <1>3, <1>4 DEF Reconciled, StoreTyped
<1> QED BY <1>1, <1>3, <1>5 DEF Moves

LEMMA ForgetPrunedMoves ==
    ASSUME StoreTyped, Traced, NEW p \in Commands, ForgetPruned(p)
    PROVE  /\ cmd[p].at = "prune_forget"
           /\ Moves(p, Doing("prune", cmd[p].disk, cmd[p].todo,
                          None, cmd[p].read, cmd[p].stamp))
<1> DEFINE c == Doing("prune", cmd[p].disk, cmd[p].todo, None, cmd[p].read, cmd[p].stamp)
<1>1. cmd[p] \in CommandStates /\ DOMAIN cmd = Commands /\ cmd[p].at = "prune_forget"
  BY DEF StoreTyped, ForgetPruned
<1>3. cmd'[p] = c
  BY <1>1 DEF ForgetPruned, CommandStates, Doing
<1>4. c \in CommandStates
  BY <1>1 DEF CommandStates, Doing
<1>5. /\ cmd' \in [Commands -> CommandStates]
      /\ \A q \in Commands : q # p => cmd'[q] = cmd[q]
  BY <1>1, <1>3, <1>4 DEF ForgetPruned, StoreTyped
<1> QED BY <1>1, <1>3, <1>5 DEF Moves

LEMMA FinishMoves ==
    ASSUME StoreTyped, Traced, NEW p \in Commands, Finish(p)
    PROVE  /\ cmd[p].at # "idle"
           /\ Moves(p, Doing("idle", {}, {},
                          None, None, 0))
<1> DEFINE c == Doing("idle", {}, {}, None, None, 0)
<1>1. cmd[p] \in CommandStates /\ DOMAIN cmd = Commands /\ cmd[p].at # "idle"
  BY DEF StoreTyped, Finish
<1>3. cmd'[p] = c
  BY <1>1 DEF Finish, NotRunning, CommandStates, Doing
<1>4. c \in CommandStates
  BY <1>1 DEF CommandStates, Doing
<1>5. /\ cmd' \in [Commands -> CommandStates]
      /\ \A q \in Commands : q # p => cmd'[q] = cmd[q]
  BY <1>1, <1>3, <1>4 DEF Finish, NotRunning, StoreTyped
<1> QED BY <1>1, <1>3, <1>5 DEF Moves

LEMMA AbandonMoves ==
    ASSUME StoreTyped, Traced, NEW p \in Commands, Abandon(p)
    PROVE  /\ cmd[p].at # "idle"
           /\ Moves(p, Doing("idle", {}, {},
                          None, None, 0))
<1> DEFINE c == Doing("idle", {}, {}, None, None, 0)
<1>1. cmd[p] \in CommandStates /\ DOMAIN cmd = Commands /\ cmd[p].at # "idle"
  BY DEF StoreTyped, Abandon
<1>3. cmd'[p] = c
  BY <1>1 DEF Abandon, NotRunning, CommandStates, Doing
<1>4. c \in CommandStates
  BY <1>1 DEF CommandStates, Doing
<1>5. /\ cmd' \in [Commands -> CommandStates]
      /\ \A q \in Commands : q # p => cmd'[q] = cmd[q]
  BY <1>1, <1>3, <1>4 DEF Abandon, NotRunning, StoreTyped
<1> QED BY <1>1, <1>3, <1>5 DEF Moves

LEMMA SelectMoves ==
    ASSUME StoreTyped, Traced, NEW p \in Commands, SelectRuns(p)
    PROVE  /\ cmd[p].at = "reconciled"
           /\ \E cutoff \in 0..NRuns, todo \in SUBSET Runs :
                /\ \A r \in todo : /\ Known(r) /\ row[r].verdict # "invalid"
                                   /\ (r <= cutoff \/ BeyondWindow(r))
                /\ Moves(p, Doing("prune", cmd[p].disk, todo, cmd[p].run, cmd[p].read, cmd[p].stamp))
                /\ operator' = [operator EXCEPT !.cutoff = Max({operator.cutoff, cutoff})]
<1>1. cmd[p] \in CommandStates /\ DOMAIN cmd = Commands /\ cmd[p].at = "reconciled"
  BY DEF StoreTyped, SelectRuns
<1>2. PICK cutoff \in (IF MaxAge THEN 0..NRuns ELSE {0}) :
         /\ cmd' = [cmd EXCEPT ![p].at = "prune",
                               ![p].todo = {r \in Runs : /\ Known(r)
                                                         /\ (r <= cutoff \/ BeyondWindow(r))
                                                         /\ row[r].verdict # "invalid"}]
         /\ operator' = [operator EXCEPT !.cutoff = Max({operator.cutoff, cutoff})]
  BY DEF SelectRuns
<1>8. cutoff \in 0..NRuns
  BY RunStoreAssumption
<1> DEFINE todo == {r \in Runs : /\ Known(r)
                                 /\ (r <= cutoff \/ BeyondWindow(r))
                                 /\ row[r].verdict # "invalid"}
           c == Doing("prune", cmd[p].disk, todo, cmd[p].run, cmd[p].read, cmd[p].stamp)
<1>3. cmd'[p] = c
  BY <1>1, <1>2 DEF CommandStates, Doing
<1>4. c \in CommandStates
  BY <1>1 DEF CommandStates, Doing
<1>5. /\ cmd' \in [Commands -> CommandStates]
      /\ \A q \in Commands : q # p => cmd'[q] = cmd[q]
  BY <1>1, <1>2, <1>3, <1>4 DEF StoreTyped
<1>6. Moves(p, c)
  BY <1>3, <1>5 DEF Moves
<1> HIDE DEF c
<1>7. /\ todo \in SUBSET Runs
      /\ \A r \in todo : /\ Known(r) /\ row[r].verdict # "invalid"
                         /\ (r <= cutoff \/ BeyondWindow(r))
  OBVIOUS
<1> QED BY <1>1, <1>2, <1>6, <1>7, <1>8 DEF c

LEMMA RemoveMoves ==
    ASSUME StoreTyped, Traced, NEW p \in Commands, RemoveDirectory(p)
    PROVE  /\ cmd[p].at = "prune"
           /\ \E r \in cmd[p].todo :
                /\ bundle' = bundle \/ bundle' = [bundle EXCEPT ![r] = None]
                /\ \A s \in cmd[p].todo : r >= s
                /\ \/ Moves(p, Doing("prune", cmd[p].disk, cmd[p].todo \ {r}, None,
                                     cmd[p].read, cmd[p].stamp))
                   \/ /\ bundle'[r] = None
                      /\ Moves(p, Doing("prune_forget", cmd[p].disk, cmd[p].todo \ {r}, r,
                                        cmd[p].read, cmd[p].stamp))
<1> DEFINE r == Max(cmd[p].todo)
<1>1. cmd[p] \in CommandStates /\ DOMAIN cmd = Commands /\ cmd[p].at = "prune"
  BY DEF StoreTyped, RemoveDirectory
<1>2. r \in cmd[p].todo /\ r \in Runs /\ \A s \in cmd[p].todo : r >= s
  BY <1>1, LeastAndGreatest DEF RemoveDirectory, CommandStates
<1>3. PICK at \in {"prune", "prune_forget"} :
         /\ at = "prune_forget" => bundle'[r] = None
         /\ cmd' = [cmd EXCEPT ![p].at = at, ![p].todo = cmd[p].todo \ {r},
                               ![p].run = IF at = "prune" THEN None ELSE r]
  BY <1>1 DEF RemoveDirectory
<1>4. bundle' = bundle \/ bundle' = [bundle EXCEPT ![r] = None]
  BY DEF RemoveDirectory
<1> HIDE DEF r
<1> DEFINE c == Doing(at, cmd[p].disk, cmd[p].todo \ {r}, IF at = "prune" THEN None ELSE r,
                      cmd[p].read, cmd[p].stamp)
<1>5. cmd'[p] = c
  BY <1>1, <1>3 DEF CommandStates, Doing
<1>6. c \in CommandStates
  BY <1>1, <1>2 DEF CommandStates, Doing
<1>7. /\ cmd' \in [Commands -> CommandStates]
      /\ \A q \in Commands : q # p => cmd'[q] = cmd[q]
  BY <1>1, <1>3, <1>5, <1>6 DEF StoreTyped
<1>8. Moves(p, c)
  BY <1>5, <1>7 DEF Moves
<1> QED BY <1>1, <1>2, <1>3, <1>4, <1>8

-----------------------------------------------------------------------------
(* The windows                                                             *)

LEMMA WindowsAreFinite ==
    ASSUME NEW r \in Runs
    PROVE  IsFiniteSet(Window(r)) /\ Cardinality(Window(r)) \in Nat
<1>1. IsFiniteSet((r + 1)..NRuns)
  BY FS_Interval, RunStoreAssumption DEF Runs
<1>2. IsFiniteSet(Window(r))
  BY <1>1, FS_Subset DEF Window
<1> QED BY <1>2, FS_CardinalityType

\* A run is superseded by what supersedes a newer one.
LEMMA SupersededByMore ==
    ASSUME NEW r \in Runs, NEW s \in Runs, Superseded(s),
           \A newer \in Runs : newer > s /\ OnDisk(newer) => newer > r /\ OnDisk(newer)'
    PROVE  Superseded(r)'
<1>1. IsFiniteSet(Window(r)') /\ Cardinality(Window(r)') \in Nat
  <2>1. IsFiniteSet((r + 1)..NRuns)
    BY FS_Interval, RunStoreAssumption DEF Runs
  <2>2. IsFiniteSet(Window(r)')
    BY <2>1, FS_Subset DEF Window
  <2> QED BY <2>2, FS_CardinalityType
<1>2. Window(s) \subseteq Window(r)'
  BY RunStoreAssumption DEF Window, Runs
<1>3. Cardinality(Window(s)) <= Cardinality(Window(r)')
  BY <1>1, <1>2, FS_Subset
<1>4. Cardinality(Window(s)) >= KeepLast /\ Cardinality(Window(s)) \in Nat
  BY WindowsAreFinite DEF Superseded
<1> QED BY <1>1, <1>3, <1>4, RunStoreAssumption DEF Superseded

\* As long as nothing leaves the disk, it is enough to look at what a step adds
\* to the runs that were there and to what is about to be pruned.
LEMMA NewestIfNothingGoes ==
    ASSUME StoreInv, operator'.removals = operator.removals, operator'.cutoff = operator.cutoff,
           \A r \in Runs : /\ OnDisk(r) => OnDisk(r)'
                           /\ WasThere(r)' => WasThere(r) \/ OnDisk(r)'
                           /\ \A p \in Commands : Prunes(cmd'[p]) /\ r \in cmd'[p].todo =>
                                \E q \in Commands : Prunes(cmd[q]) /\ r \in cmd[q].todo
    PROVE  NewestKept'
<1> SUFFICES ASSUME operator'.removals = 0, NEW r \in Runs, r > operator'.cutoff
             PROVE  /\ WasThere(r)' /\ ~OnDisk(r)' => Superseded(r)'
                    /\ \A p \in Commands : Prunes(cmd'[p]) /\ r \in cmd'[p].todo => Superseded(r)'
  BY DEF NewestKept, Prunes
<1>1. /\ WasThere(r) /\ ~OnDisk(r) => Superseded(r)
      /\ \A p \in Commands : Prunes(cmd[p]) /\ r \in cmd[p].todo => Superseded(r)
  BY DEF StoreInv, NewestKept
<1>2. Superseded(r) => Superseded(r)'
  BY SupersededByMore
<1>3. WasThere(r)' /\ ~OnDisk(r)' => WasThere(r) /\ ~OnDisk(r)
  OBVIOUS
<1> QED BY <1>1, <1>2, <1>3

-----------------------------------------------------------------------------
(* What the steps keep                                                     *)

LEMMA StoreInvInit == Init => StoreInv
<1> SUFFICES ASSUME Init PROVE StoreInv
  OBVIOUS
<1>1. StoreTyped
  BY InitTyped
<1>2. Traced
  BY NoneIsNothing DEF Init, Traced, Fits, Holds, OnDisk, Known, NotRunning
<1>3. NewestKept
  BY DEF Init, NewestKept, WasThere, Known, Holds, Prunes, NotRunning
<1> QED BY <1>1, <1>2, <1>3 DEF StoreInv

\* A step of a command that takes nothing from the disk that was not there and
\* gives no run a row before it was written: what remains is where the command
\* has come to.
LEMMA CommandKeeps ==
    ASSUME StoreTyped, Traced, NEW p \in Commands, NEW c, Moves(p, c),
           writer' = writer, bundle' \in [Runs -> Content \cup {None}],
           row' \in [Runs -> Rows \cup {None}],
           operator' \in [edits : Nat, removals : Nat, cutoff : 0..NRuns],
           calm' \in [Commands -> BOOLEAN],
           \A r \in Runs : (OnDisk(r)' => OnDisk(r)) /\ (Known(r)' => Left(r)),
           Fits(c)'
    PROVE  StoreTyped' /\ Traced'
<1>1. StoreTyped'
  BY DEF StoreTyped, Moves
<1>2. \A r \in Runs : OnDisk(r)' \/ Known(r)' => Left(r)'
  BY DEF Traced, Left
<1>3. \A q \in Commands : Fits(cmd[q])'
  <2> SUFFICES ASSUME NEW q \in Commands, q # p
               PROVE  Fits(cmd[q])'
    BY DEF Moves, Fits, Holds
  <2>1. Fits(cmd[q]) /\ cmd[q].disk \subseteq Runs /\ cmd[q].todo \subseteq Runs
         /\ cmd[q].run \in Runs \cup {None}
    BY DEF Traced, StoreTyped, CommandStates
  <2>2. cmd'[q] = cmd[q]
    BY DEF Moves
  <2> QED BY <2>1, <2>2 DEF Fits, Left, Holds
<1> QED BY <1>1, <1>2, <1>3 DEF Traced

\* A command that neither writes a row nor removes a bundle.
LEMMA QuietCommand ==
    ASSUME StoreInv, NEW p \in Commands, NEW c, Moves(p, c),
           UNCHANGED files, calm' \in [Commands -> BOOLEAN],
           Fits(c), Prunes(c) => Prunes(cmd[p]) /\ c.todo \subseteq cmd[p].todo,
           Holds(c) => (Holds(cmd[p]) /\ cmd[p].run = c.run) \/ OnDisk(c.run)
    PROVE  StoreInv'
<1>1. /\ writer' = writer /\ bundle' = bundle /\ row' = row /\ operator' = operator
      /\ \A r \in Runs : /\ OnDisk(r)' <=> OnDisk(r)
                         /\ Known(r)' <=> Known(r)
  BY DEF files, OnDisk, Known
<1>2. Fits(c)'
  BY <1>1 DEF Fits, Left, OnDisk
<1>3. StoreTyped' /\ Traced'
  BY <1>1, <1>2, CommandKeeps DEF StoreInv, StoreTyped, Traced
<1>4. \A r \in Runs : WasThere(r)' => WasThere(r) \/ OnDisk(r)'
  <2> SUFFICES ASSUME NEW r \in Runs, NEW q \in Commands, Holds(cmd'[q]), cmd'[q].run = r
               PROVE  WasThere(r) \/ OnDisk(r)'
    BY <1>1 DEF WasThere, Holds
  <2>1. CASE q # p
    BY <2>1 DEF Moves, WasThere
  <2>2. CASE q = p
    BY <1>1, <2>2 DEF Moves, WasThere
  <2> QED BY <2>1, <2>2
<1>5. NewestKept'
  <2>1. \A r \in Runs, q \in Commands : Prunes(cmd'[q]) /\ r \in cmd'[q].todo =>
            \E o \in Commands : Prunes(cmd[o]) /\ r \in cmd[o].todo
    BY DEF Moves
  <2> QED BY <1>1, <1>4, <2>1, NewestIfNothingGoes
<1> QED BY <1>3, <1>5 DEF StoreInv

-----------------------------------------------------------------------------
(* Reconciliation                                                          *)

\* The steps that only look.
LEMMA QuietSteps ==
    ASSUME StoreInv, NEW p \in Commands,
           \/ Begin(p) \/ ScanEnds(p) \/ ReadBundle(p) \/ StampRow(p)
           \/ (\E r \in Runs : ScanEntry(p, r)) \/ CheckRow(p)
           \/ ListKnown(p) \/ Recheck(p) \/ Reconciled(p) \/ Finish(p) \/ Abandon(p)
    PROVE  StoreInv'
<1>1. /\ StoreTyped /\ Traced /\ Fits(cmd[p]) /\ cmd[p] \in CommandStates
      /\ \A r \in Runs : OnDisk(r) \/ Known(r) => Left(r)
  BY DEF StoreInv, Traced, StoreTyped
<1>2. CASE Begin(p)
  <2>1. /\ UNCHANGED files /\ calm' \in [Commands -> BOOLEAN]
    BY <1>1, <1>2 DEF Begin, StoreTyped
  <2>2. PICK c : Moves(p, c) /\ c = Doing("scan", {}, Runs, None, None, 0)
    BY <1>1, <1>2, BeginMoves
  <2>3. Fits(c) /\ ~Prunes(c) /\ ~Holds(c)
    BY <2>2 DEF Fits, Prunes, Holds, Doing
  <2> QED BY <2>1, <2>2, <2>3, QuietCommand
<1>3. CASE \E r \in Runs : ScanEntry(p, r)
  <2>1. PICK r \in Runs : ScanEntry(p, r)
    BY <1>3
  <2>2. /\ UNCHANGED files /\ calm' \in [Commands -> BOOLEAN]
    BY <1>1, <2>1 DEF ScanEntry, StoreTyped
  <2>3. PICK c : /\ Moves(p, c)
                 /\ c = Doing("scan", IF OnDisk(r) THEN cmd[p].disk \cup {r} ELSE cmd[p].disk,
                              cmd[p].todo \ {r}, cmd[p].run, cmd[p].read, cmd[p].stamp)
    BY <1>1, <2>1, ScanEntryMoves
  <2>4. Fits(c) /\ ~Prunes(c) /\ ~Holds(c)
    BY <1>1, <2>3 DEF Fits, Prunes, Holds, Doing
  <2> QED BY <2>2, <2>3, <2>4, QuietCommand
<1>4. CASE ScanEnds(p)
  <2>1. /\ UNCHANGED files /\ calm' \in [Commands -> BOOLEAN]
    BY <1>1, <1>4 DEF ScanEnds, StoreTyped
  <2>2. PICK c : /\ Moves(p, c)
                 /\ c = Doing("refresh", cmd[p].disk, cmd[p].disk, cmd[p].run, cmd[p].read,
                              cmd[p].stamp)
    BY <1>1, <1>4, ScanEndsMoves
  <2>3. Fits(c) /\ ~Prunes(c) /\ ~Holds(c)
    BY <1>1, <2>2 DEF Fits, Prunes, Holds, Doing
  <2> QED BY <2>1, <2>2, <2>3, QuietCommand
<1>5. CASE CheckRow(p)
  <2>1. /\ UNCHANGED files /\ calm' \in [Commands -> BOOLEAN]
    BY <1>1, <1>5 DEF CheckRow, StoreTyped
  <2>2. PICK least \in Runs, c \in CommandStates :
             /\ cmd[p].at = "refresh" /\ least \in cmd[p].todo
             /\ Moves(p, c)
             /\ c = Doing(IF IsCurrent(least) THEN "refresh" ELSE "read", cmd[p].disk,
                          cmd[p].todo \ {least}, IF IsCurrent(least) THEN None ELSE least,
                          cmd[p].read, cmd[p].stamp)
    BY <1>1, <1>5, CheckRowMoves DEF Moves
  <2>3. Fits(c) /\ ~Prunes(c) /\ ~Holds(c)
    BY <1>1, <2>2 DEF Fits, Prunes, Holds, Doing
  <2> QED BY <2>1, <2>2, <2>3, QuietCommand
<1>6. CASE ReadBundle(p)
  <2>1. /\ UNCHANGED files /\ calm' \in [Commands -> BOOLEAN]
    BY <1>1, <1>6 DEF ReadBundle, StoreTyped
  <2>2. PICK c : /\ cmd[p].at = "read" /\ Moves(p, c)
                 /\ c = Doing(IF Readable(cmd[p].run) THEN "stamp" ELSE "refresh",
                              cmd[p].disk, cmd[p].todo,
                              IF Readable(cmd[p].run) THEN cmd[p].run ELSE None,
                              IF Readable(cmd[p].run) THEN bundle[cmd[p].run] ELSE cmd[p].read,
                              cmd[p].stamp)
    BY <1>1, <1>6, ReadBundleMoves
  <2>3. /\ Fits(c) /\ ~Prunes(c) /\ (Holds(c) => OnDisk(c.run))
    <3>1. CASE Readable(cmd[p].run)
      <4>1. /\ bundle[cmd[p].run] \in Content /\ bundle[cmd[p].run].verdict # "unreadable"
            /\ OnDisk(cmd[p].run)
        BY <1>1, <2>2, <3>1 DEF Fits, StoreTyped, Readable, OnDisk
      <4> QED BY <1>1, <2>2, <3>1, <4>1 DEF Fits, Prunes, Holds, Doing
    <3>2. CASE ~Readable(cmd[p].run)
      BY <1>1, <2>2, <3>2 DEF Fits, Prunes, Holds, Doing
    <3> QED BY <3>1, <3>2
  <2> QED BY <2>1, <2>2, <2>3, QuietCommand
<1>7. CASE StampRow(p)
  <2>1. /\ UNCHANGED files /\ calm' \in [Commands -> BOOLEAN]
    BY <1>1, <1>7 DEF StampRow, StoreTyped
  <2>2. PICK c : /\ cmd[p].at = "stamp" /\ Moves(p, c)
                 /\ c = Doing("record", cmd[p].disk, cmd[p].todo, cmd[p].run, cmd[p].read,
                              Identity(cmd[p].run))
    BY <1>1, <1>7, StampRowMoves
  <2>3. Fits(c) /\ ~Prunes(c) /\ Holds(cmd[p]) /\ cmd[p].run = c.run
    BY <1>1, <2>2 DEF Fits, Prunes, Holds, Doing
  <2> QED BY <2>1, <2>2, <2>3, QuietCommand
<1>8. CASE ListKnown(p)
  <2>1. /\ UNCHANGED files /\ calm' \in [Commands -> BOOLEAN]
    BY <1>1, <1>8 DEF ListKnown, StoreTyped
  <2>2. PICK c : /\ Moves(p, c)
                 /\ c = Doing("recheck", {}, {r \in Runs : Known(r)} \ cmd[p].disk, None,
                              cmd[p].read, cmd[p].stamp)
    BY <1>1, <1>8, ListKnownMoves
  <2>3. Fits(c) /\ ~Prunes(c) /\ ~Holds(c)
    BY <1>1, <2>2 DEF Fits, Prunes, Holds, Doing
  <2> QED BY <2>1, <2>2, <2>3, QuietCommand
<1>9. CASE Recheck(p)
  <2>1. /\ UNCHANGED files /\ calm' \in [Commands -> BOOLEAN]
    BY <1>1, <1>9 DEF Recheck, StoreTyped
  <2>2. PICK newest \in Runs, c \in CommandStates :
             /\ cmd[p].at = "recheck" /\ newest \in cmd[p].todo
             /\ Moves(p, c)
             /\ c = Doing(IF OnDisk(newest) THEN "recheck" ELSE "forget", cmd[p].disk,
                          cmd[p].todo \ {newest}, IF OnDisk(newest) THEN None ELSE newest,
                          cmd[p].read, cmd[p].stamp)
    BY <1>1, <1>9, RecheckMoves DEF Moves
  <2>3. Fits(c) /\ ~Prunes(c) /\ ~Holds(c)
    BY <1>1, <2>2 DEF Fits, Prunes, Holds, Doing
  <2> QED BY <2>1, <2>2, <2>3, QuietCommand
<1>10. CASE Reconciled(p)
  <2>1. /\ UNCHANGED files /\ calm' \in [Commands -> BOOLEAN]
    BY <1>1, <1>10 DEF Reconciled, StoreTyped
  <2>2. PICK c : /\ cmd[p].at = "recheck" /\ Moves(p, c)
                 /\ c = Doing("reconciled", cmd[p].disk, cmd[p].todo, cmd[p].run,
                              cmd[p].read, cmd[p].stamp)
    BY <1>1, <1>10, ReconciledMoves
  <2>3. Fits(c) /\ ~Prunes(c) /\ ~Holds(c)
    BY <1>1, <2>2 DEF Fits, Prunes, Holds, Doing
  <2> QED BY <2>1, <2>2, <2>3, QuietCommand
<1>11. CASE Finish(p) \/ Abandon(p)
  <2>1. /\ UNCHANGED files /\ calm' \in [Commands -> BOOLEAN]
    BY <1>1, <1>11 DEF Finish, Abandon, StoreTyped
  <2>2. PICK c : Moves(p, c) /\ c = Doing("idle", {}, {}, None, None, 0)
    BY <1>1, <1>11, FinishMoves, AbandonMoves
  <2>3. Fits(c) /\ ~Prunes(c) /\ ~Holds(c)
    BY <2>2 DEF Fits, Prunes, Holds, Doing
  <2> QED BY <2>1, <2>2, <2>3, QuietCommand
<1> QED BY <1>2, <1>3, <1>4, <1>5, <1>6, <1>7, <1>8, <1>9, <1>10, <1>11

\* A row is written from what was read of a bundle, and only forgotten ones go.
LEMMA RowSteps ==
    ASSUME StoreInv, NEW p \in Commands, RecordRow(p) \/ Forget(p) \/ ForgetPruned(p)
    PROVE  /\ StoreInv'
           /\ \A r \in Runs : Known(r) /\ row'[r] = None => ~OnDisk(r)
<1>1. /\ StoreTyped /\ Traced /\ Fits(cmd[p]) /\ cmd[p] \in CommandStates
      /\ \A r \in Runs : OnDisk(r) \/ Known(r) => Left(r)
  BY DEF StoreInv, Traced, StoreTyped
<1>2. /\ writer' = writer /\ bundle' = bundle /\ operator' = operator
      /\ calm' \in [Commands -> BOOLEAN] /\ cmd[p].run \in Runs /\ Left(cmd[p].run)
      /\ \A r \in Runs : OnDisk(r)' <=> OnDisk(r)
  BY <1>1, NoneIsNothing
     DEF RecordRow, Forget, ForgetPruned, DisturbOthers, StoreTyped, Fits, OnDisk
<1>3. /\ row' \in [Runs -> Rows \cup {None}]
      /\ \A r \in Runs : r # cmd[p].run => row'[r] = row[r]
      /\ RecordRow(p) => row'[cmd[p].run] \in Rows
  <2>1. CASE RecordRow(p)
    <3>1. Row(cmd[p].read, cmd[p].stamp) \in Rows
      BY <1>1, <2>1 DEF RecordRow, Row, Rows, Content, Verdicts, Fits, Holds, CommandStates
    <3>2. row' = [row EXCEPT ![cmd[p].run] = Row(cmd[p].read, cmd[p].stamp)]
      BY <2>1 DEF RecordRow
    <3> QED BY <1>1, <1>2, <3>1, <3>2 DEF StoreTyped
  <2>2. CASE Forget(p) \/ ForgetPruned(p)
    <3>1. row' = row \/ row' = [row EXCEPT ![cmd[p].run] = None]
      BY <2>2 DEF Forget, ForgetPruned
    <3>2. ~RecordRow(p)
      BY <2>2 DEF Forget, ForgetPruned, RecordRow
    <3> QED BY <1>1, <1>2, <3>1, <3>2 DEF StoreTyped
  <2> QED BY <2>1, <2>2
<1>4. PICK c : /\ Moves(p, c)
               /\ \/ /\ cmd[p].at = "record"
                     /\ c = Doing("refresh", cmd[p].disk, cmd[p].todo, None, None, 0)
                  \/ /\ cmd[p].at = "forget"
                     /\ c = Doing("recheck", cmd[p].disk, cmd[p].todo, None,
                                  cmd[p].read, cmd[p].stamp)
                  \/ /\ cmd[p].at = "prune_forget"
                     /\ c = Doing("prune", cmd[p].disk, cmd[p].todo, None,
                                  cmd[p].read, cmd[p].stamp)
  BY <1>1, RecordRowMoves, ForgetMoves, ForgetPrunedMoves
<1>5. /\ Fits(c) /\ ~Holds(c) /\ c.todo = cmd[p].todo
      /\ c.at # "forget" /\ c.at # "prune_forget" /\ (Prunes(c) => Prunes(cmd[p]))
  <2>1. c.disk = cmd[p].disk /\ c.todo = cmd[p].todo /\ c.run = None
        /\ c.at \in {"refresh", "recheck", "prune"} /\ cmd[p].at # "scan"
        /\ (c.at = "prune" => cmd[p].at = "prune_forget")
    BY <1>4 DEF Doing
  <2> QED BY <1>1, <2>1 DEF Fits, Holds, Prunes
<1>6. Fits(c)'
  BY <1>2, <1>5 DEF Fits, Left, Holds
<1>7. StoreTyped' /\ Traced'
  <2>1. \A r \in Runs : Known(r)' => Left(r)
    BY <1>1, <1>2, <1>3 DEF Known
  <2>2. operator' \in [edits : Nat, removals : Nat, cutoff : 0..NRuns]
        /\ bundle' \in [Runs -> Content \cup {None}]
    BY <1>1, <1>2 DEF StoreTyped
  <2> QED BY <1>1, <1>2, <1>3, <1>4, <1>6, <2>1, <2>2, CommandKeeps
<1>8. \A r \in Runs : WasThere(r)' => WasThere(r)
  <2>1. \A q \in Commands : Holds(cmd'[q]) => q # p /\ cmd'[q] = cmd[q]
    BY <1>4, <1>5 DEF Moves
  <2>2. \A r \in Runs : Known(r)' => Known(r) \/ (RecordRow(p) /\ r = cmd[p].run)
    BY <1>3, <1>4, NoneIsNothing DEF Known, Forget, ForgetPruned, RecordRow
  <2>3. RecordRow(p) => Holds(cmd[p])
    BY DEF RecordRow, Holds
  <2> QED BY <1>2, <2>1, <2>2, <2>3 DEF WasThere, Holds
<1>9. NewestKept'
  <2>1. \A r \in Runs, q \in Commands : Prunes(cmd'[q]) /\ r \in cmd'[q].todo =>
            \E o \in Commands : Prunes(cmd[o]) /\ r \in cmd[o].todo
    BY <1>4, <1>5 DEF Moves
  <2> QED BY <1>2, <1>8, <2>1, NewestIfNothingGoes
<1>10. \A r \in Runs : Known(r) /\ row'[r] = None => ~OnDisk(r)
  <2>1. Forget(p) \/ ForgetPruned(p) => ~OnDisk(cmd[p].run)
    BY <1>1 DEF Forget, ForgetPruned, Fits
  <2> QED BY <1>3, <2>1, NoneIsNothing DEF Known
<1> QED BY <1>7, <1>9, <1>10 DEF StoreInv

-----------------------------------------------------------------------------
(* Pruning                                                                 *)

LEMMA GreaterOfTwo ==
    ASSUME NEW a \in 0..NRuns, NEW b \in 0..NRuns
    PROVE  Max({a, b}) \in 0..NRuns /\ Max({a, b}) >= a /\ Max({a, b}) >= b
<1>1. \E x \in {a, b} : \A y \in {a, b} : x >= y
  BY RunStoreAssumption
<1> QED BY <1>1 DEF Max

\* A run is chosen for its age, or because enough newer ones have rows: either
\* all of them are there, or one is gone and superseded itself.
LEMMA SelectStep ==
    ASSUME StoreInv, NEW p \in Commands, SelectRuns(p)
    PROVE  StoreInv'
<1>1. /\ StoreTyped /\ Traced /\ Fits(cmd[p]) /\ cmd[p] \in CommandStates
      /\ \A r \in Runs : OnDisk(r) \/ Known(r) => Left(r)
  BY DEF StoreInv, Traced, StoreTyped
<1>2. /\ writer' = writer /\ bundle' = bundle /\ row' = row
      /\ calm' \in [Commands -> BOOLEAN]
      /\ \A r \in Runs : (OnDisk(r)' <=> OnDisk(r)) /\ (Known(r)' <=> Known(r))
  BY <1>1 DEF SelectRuns, StoreTyped, OnDisk, Known
<1>3. PICK cutoff \in 0..NRuns, todo \in SUBSET Runs :
         /\ \A r \in todo : /\ Known(r) /\ row[r].verdict # "invalid"
                            /\ (r <= cutoff \/ BeyondWindow(r))
         /\ Moves(p, Doing("prune", cmd[p].disk, todo, cmd[p].run, cmd[p].read, cmd[p].stamp))
         /\ operator' = [operator EXCEPT !.cutoff = Max({operator.cutoff, cutoff})]
  BY <1>1, SelectMoves
<1>4. PICK c : /\ c = Doing("prune", cmd[p].disk, todo, cmd[p].run, cmd[p].read, cmd[p].stamp)
               /\ Moves(p, c)
  BY <1>3
<1>5. /\ operator' \in [edits : Nat, removals : Nat, cutoff : 0..NRuns]
      /\ operator'.removals = operator.removals
      /\ operator'.cutoff >= operator.cutoff /\ operator'.cutoff >= cutoff
  BY <1>1, <1>3, GreaterOfTwo DEF StoreTyped
<1>6. Fits(c) /\ ~Holds(c) /\ c.todo = todo
  BY <1>1, <1>3, <1>4 DEF Fits, Holds, Doing
<1>7. StoreTyped' /\ Traced'
  <2>1. Fits(c)'
    BY <1>2, <1>6 DEF Fits, Left, Holds, OnDisk
  <2>2. bundle' \in [Runs -> Content \cup {None}] /\ row' \in [Runs -> Rows \cup {None}]
    BY <1>1, <1>2 DEF StoreTyped
  <2> QED BY <1>1, <1>2, <1>4, <1>5, <2>1, <2>2, CommandKeeps
<1>8. ASSUME operator.removals = 0, NEW r \in todo, r > operator'.cutoff
      PROVE  Superseded(r)
  <2> DEFINE known == {newer \in (r + 1)..NRuns : Known(newer)}
  <2>1. r \in Runs /\ Cardinality(known) >= KeepLast
    BY <1>3, <1>5, <1>8 DEF BeyondWindow, Runs, StoreTyped
  <2>2. CASE \A newer \in known : OnDisk(newer)
    <3>1. known \subseteq Window(r)
      BY <2>2 DEF Window
    <3>2. IsFiniteSet(Window(r)) /\ Cardinality(Window(r)) \in Nat
      BY <2>1, WindowsAreFinite
    <3>3. Cardinality(known) <= Cardinality(Window(r)) /\ Cardinality(known) \in Nat
      BY <3>1, <3>2, FS_Subset, FS_CardinalityType
    <3> QED BY <2>1, <3>2, <3>3, RunStoreAssumption DEF Superseded
  <2>3. CASE \E newer \in known : ~OnDisk(newer)
    <3>1. PICK newer \in known : ~OnDisk(newer)
      BY <2>3
    <3>2. newer \in Runs /\ newer > r /\ WasThere(newer) /\ newer > operator.cutoff
      BY <1>1, <1>5, <1>8, <2>1, RunStoreAssumption DEF WasThere, Runs, StoreTyped
    <3>3. Superseded(newer)
      BY <1>8, <3>1, <3>2 DEF StoreInv, NewestKept
    <3>4. Window(newer) \subseteq Window(r)
      BY <2>1, <3>2, RunStoreAssumption DEF Window, Runs
    <3>5. IsFiniteSet(Window(r)) /\ Cardinality(Window(r)) \in Nat
      BY <2>1, WindowsAreFinite
    <3>6. Cardinality(Window(newer)) <= Cardinality(Window(r)) /\ Cardinality(Window(newer)) \in Nat
      BY <3>4, <3>5, FS_Subset, FS_CardinalityType
    <3> QED BY <3>3, <3>5, <3>6, RunStoreAssumption DEF Superseded
  <2> QED BY <2>2, <2>3
<1>9. NewestKept'
  <2> SUFFICES ASSUME operator.removals = 0, NEW r \in Runs, r > operator'.cutoff
               PROVE  /\ WasThere(r)' /\ ~OnDisk(r)' => Superseded(r)'
                      /\ \A q \in Commands : Prunes(cmd'[q]) /\ r \in cmd'[q].todo => Superseded(r)'
    BY <1>5 DEF NewestKept, Prunes
  <2>1. r > operator.cutoff
    BY <1>1, <1>5 DEF StoreTyped, Runs
  <2>2. Superseded(r)' <=> Superseded(r)
    BY <1>2 DEF Superseded, Window, OnDisk
  <2>3. WasThere(r)' => WasThere(r)
    <3>1. \A q \in Commands : Holds(cmd'[q]) => q # p /\ cmd'[q] = cmd[q]
      BY <1>4, <1>6 DEF Moves
    <3> QED BY <1>2, <3>1 DEF WasThere, Holds
  <2>4. \A q \in Commands : Prunes(cmd'[q]) /\ r \in cmd'[q].todo => Superseded(r)
    BY <1>4, <1>6, <1>8, <2>1 DEF StoreInv, NewestKept, Moves
  <2> QED BY <1>2, <2>1, <2>2, <2>3, <2>4 DEF StoreInv, NewestKept
<1> QED BY <1>7, <1>9 DEF StoreInv

\* The newest of the chosen goes first, and what supersedes it supersedes the
\* others.
LEMMA RemoveStep ==
    ASSUME StoreInv, NEW p \in Commands, RemoveDirectory(p)
    PROVE  StoreInv'
<1>1. /\ StoreTyped /\ Traced /\ Fits(cmd[p]) /\ cmd[p] \in CommandStates
      /\ \A r \in Runs : OnDisk(r) \/ Known(r) => Left(r)
  BY DEF StoreInv, Traced, StoreTyped
<1>2. /\ writer' = writer /\ row' = row /\ operator' = operator
      /\ calm' \in [Commands -> BOOLEAN] /\ cmd[p].at = "prune"
      /\ \A r \in Runs : Known(r)' <=> Known(r)
  BY <1>1 DEF RemoveDirectory, DisturbOthers, StoreTyped, Known
<1>3. PICK r \in cmd[p].todo :
         /\ bundle' = bundle \/ bundle' = [bundle EXCEPT ![r] = None]
         /\ \A s \in cmd[p].todo : r >= s
         /\ \/ Moves(p, Doing("prune", cmd[p].disk, cmd[p].todo \ {r}, None,
                              cmd[p].read, cmd[p].stamp))
            \/ /\ bundle'[r] = None
               /\ Moves(p, Doing("prune_forget", cmd[p].disk, cmd[p].todo \ {r}, r,
                                 cmd[p].read, cmd[p].stamp))
  BY <1>1, RemoveMoves
<1>4. /\ r \in Runs /\ bundle' \in [Runs -> Content \cup {None}]
      /\ \A s \in Runs : OnDisk(s)' => OnDisk(s)
      /\ \A s \in Runs : s # r => (OnDisk(s)' <=> OnDisk(s))
      /\ bundle'[r] = None => ~OnDisk(r)'
  BY <1>1, <1>3 DEF CommandStates, StoreTyped, OnDisk
<1>5. PICK c : /\ Moves(p, c)
               /\ \/ c = Doing("prune", cmd[p].disk, cmd[p].todo \ {r}, None,
                               cmd[p].read, cmd[p].stamp)
                  \/ /\ bundle'[r] = None
                     /\ c = Doing("prune_forget", cmd[p].disk, cmd[p].todo \ {r}, r,
                                  cmd[p].read, cmd[p].stamp)
  BY <1>3
<1>6. Fits(c)' /\ ~Holds(c) /\ c.todo = cmd[p].todo \ {r}
  BY <1>1, <1>2, <1>4, <1>5 DEF Fits, Holds, Doing, Left
<1>7. StoreTyped' /\ Traced'
  <2>1. operator' \in [edits : Nat, removals : Nat, cutoff : 0..NRuns]
        /\ row' \in [Runs -> Rows \cup {None}]
    BY <1>1, <1>2 DEF StoreTyped
  <2> QED BY <1>1, <1>2, <1>4, <1>5, <1>6, <2>1, CommandKeeps
<1>8. NewestKept'
  <2> SUFFICES ASSUME operator.removals = 0, NEW s \in Runs, s > operator.cutoff
               PROVE  /\ WasThere(s)' /\ ~OnDisk(s)' => Superseded(s)'
                      /\ \A q \in Commands : Prunes(cmd'[q]) /\ s \in cmd'[q].todo => Superseded(s)'
    BY <1>2 DEF NewestKept, Prunes
  <2>1. r > operator.cutoff => Superseded(r)
    BY <1>2, <1>4 DEF StoreInv, NewestKept, Prunes
  <2>2. Superseded(s) => Superseded(s)'
    <3>1. CASE r > s
      <4>1. Superseded(r)
        BY <1>1, <1>4, <2>1, <3>1 DEF StoreTyped, Runs
      <4>2. \A newer \in Runs : newer > r /\ OnDisk(newer) => newer > s /\ OnDisk(newer)'
        BY <1>4, <3>1 DEF Runs
      <4> QED BY <1>4, <4>1, <4>2, SupersededByMore
    <3>2. CASE ~(r > s)
      <4>1. \A newer \in Runs : newer > s /\ OnDisk(newer) => newer > s /\ OnDisk(newer)'
        BY <1>4, <3>2 DEF Runs
      <4> QED BY <4>1, SupersededByMore
    <3> QED BY <3>1, <3>2
  <2>3. \A q \in Commands : Prunes(cmd'[q]) /\ s \in cmd'[q].todo =>
            \E o \in Commands : Prunes(cmd[o]) /\ s \in cmd[o].todo
    BY <1>2, <1>5, <1>6 DEF Moves, Prunes
  <2>4. WasThere(s)' => WasThere(s)
    <3>1. \A q \in Commands : Holds(cmd'[q]) => q # p /\ cmd'[q] = cmd[q]
      BY <1>5, <1>6 DEF Moves
    <3> QED BY <1>2, <3>1 DEF WasThere, Holds
  <2>5. OnDisk(s) /\ ~OnDisk(s)' => Superseded(s)
    BY <1>4, <2>1
  <2>6. WasThere(s) /\ ~OnDisk(s) => Superseded(s)
    BY DEF StoreInv, NewestKept
  <2>7. \A o \in Commands : Prunes(cmd[o]) /\ s \in cmd[o].todo => Superseded(s)
    BY DEF StoreInv, NewestKept
  <2> QED BY <2>2, <2>3, <2>4, <2>5, <2>6, <2>7
<1> QED BY <1>7, <1>8 DEF StoreInv

-----------------------------------------------------------------------------
(* Persisting, and the operator                                            *)

\* What the agent of run r does leaves the other runs alone.
LEMMA WriterSteps ==
    ASSUME StoreInv, NEW r \in Runs, Writer(r)
    PROVE  /\ writer' \in [Runs -> WriterStates] /\ Left(r)'
           /\ \A s \in Runs : s # r => writer'[s] = writer[s] /\ bundle'[s] = bundle[s] /\ row'[s] = row[s]
           /\ bundle' \in [Runs -> Content \cup {None}] /\ row' \in [Runs -> Rows \cup {None}]
           /\ cmd' = cmd /\ operator' = operator /\ calm' \in [Commands -> BOOLEAN]
           /\ writer'[r].at \in {"written", "stamped"} => writer'[r].verdict \in {"clean", "invalid"}
           /\ \/ /\ ~Left(r) /\ row' = row /\ writer'[r].at = "written" /\ bundle'[r] \in Content
                 /\ bundle'[r] = [version |-> 1, verdict |-> writer'[r].verdict]
              \/ /\ writer[r].at = "written" /\ bundle' = bundle /\ row' = row /\ writer'[r].at = "stamped"
                 /\ writer'[r].verdict = writer[r].verdict /\ writer'[r].stamp = Identity(r)
              \/ /\ writer[r].at = "stamped" /\ bundle' = bundle /\ writer'[r].at = "done"
                 /\ row'[r] = Row([version |-> 1, verdict |-> writer[r].verdict], writer[r].stamp)
                 /\ row'[r] \in Rows
              \/ bundle' = bundle /\ row' = row /\ writer'[r].at = "done"
<1>1. /\ StoreTyped /\ writer[r] \in WriterStates /\ DOMAIN writer = Runs
      /\ writer[r].at \in {"written", "stamped"} => writer[r].verdict \in {"clean", "invalid"}
  BY DEF StoreInv, StoreTyped
<1>2. CASE WriteBundle(r)
  <2>1. PICK verdict \in {"clean", "invalid"} :
           /\ bundle' = [bundle EXCEPT ![r] = [version |-> 1, verdict |-> verdict]]
           /\ writer' = [writer EXCEPT ![r].at = "written", ![r].verdict = verdict]
    BY <1>2, RunStoreAssumption DEF WriteBundle
  <2>2. writer'[r] = [at |-> "written", verdict |-> verdict, stamp |-> writer[r].stamp]
    BY <1>1, <2>1 DEF WriterStates
  <2>3. writer'[r] \in WriterStates
    BY <1>1, <2>2 DEF WriterStates
  <2>4. /\ writer' \in [Runs -> WriterStates]
        /\ \A s \in Runs : s # r => writer'[s] = writer[s]
    BY <1>1, <2>1, <2>3 DEF StoreTyped
  <2>5. /\ bundle' \in [Runs -> Content \cup {None}] /\ bundle'[r] \in Content
        /\ bundle'[r] = [version |-> 1, verdict |-> verdict]
        /\ \A s \in Runs : s # r => bundle'[s] = bundle[s]
    BY <1>1, <2>1 DEF StoreTyped, Content, Verdicts
  <2>6. writer[r].at = "running" /\ row' = row /\ cmd' = cmd /\ operator' = operator /\ calm' \in [Commands -> BOOLEAN]
    BY <1>2 DEF WriteBundle, DisturbAll
  <2> QED BY <1>1, <1>2, <2>2, <2>4, <2>5, <2>6 DEF Left, StoreTyped
<1>3. CASE StampRun(r)
  <2>1. writer' = [writer EXCEPT ![r].at = "stamped", ![r].stamp = Identity(r)]
    BY <1>3 DEF StampRun
  <2>2. writer'[r] = [at |-> "stamped", verdict |-> writer[r].verdict, stamp |-> Identity(r)]
    BY <1>1, <2>1 DEF WriterStates
  <2>3. writer'[r] \in WriterStates
    BY <1>1, <2>2, IdentityIsANumber DEF WriterStates
  <2>4. /\ writer' \in [Runs -> WriterStates]
        /\ \A s \in Runs : s # r => writer'[s] = writer[s]
    BY <1>1, <2>1, <2>3 DEF StoreTyped
  <2>5. writer[r].at = "written" /\ UNCHANGED <<bundle, row, cmd, operator, calm>>
    BY <1>3 DEF StampRun
  <2> QED BY <1>1, <1>3, <2>2, <2>4, <2>5 DEF Left, StoreTyped
<1>4. CASE RecordRun(r) \/ LoseRun(r)
  <2>1. writer' = [writer EXCEPT ![r] = Persisted]
    BY <1>4 DEF RecordRun, LoseRun
  <2>2. writer'[r].at = "done"
    BY <1>1, <2>1 DEF Persisted
  <2>3. Persisted \in WriterStates
    BY DEF Persisted, WriterStates
  <2>4. /\ writer' \in [Runs -> WriterStates]
        /\ \A s \in Runs : s # r => writer'[s] = writer[s]
    BY <1>1, <2>1, <2>3 DEF StoreTyped
  <2>5. cmd' = cmd /\ operator' = operator /\ bundle' = bundle /\ calm' \in [Commands -> BOOLEAN]
    BY <1>1, <1>4 DEF RecordRun, LoseRun, DisturbAll, StoreTyped
  <2>6. CASE RecordRun(r)
    <3>1. Row([version |-> 1, verdict |-> writer[r].verdict], writer[r].stamp) \in Rows
      BY <1>1, <2>6 DEF RecordRun, Row, Rows, WriterStates
    <3>2. row' = [row EXCEPT ![r] = Row([version |-> 1, verdict |-> writer[r].verdict],
                                         writer[r].stamp)]
      BY <2>6 DEF RecordRun
    <3> HIDE DEF Row
    <3>3. /\ row' \in [Runs -> Rows \cup {None}]
          /\ row'[r] = Row([version |-> 1, verdict |-> writer[r].verdict], writer[r].stamp)
          /\ \A s \in Runs : s # r => row'[s] = row[s]
      BY <1>1, <3>1, <3>2 DEF StoreTyped
    <3> QED BY <1>1, <2>2, <2>4, <2>5, <2>6, <3>1, <3>3 DEF RecordRun, Left, StoreTyped
  <2>7. CASE LoseRun(r)
    BY <1>1, <2>2, <2>4, <2>5, <2>7 DEF LoseRun, Left, StoreTyped
  <2> QED BY <1>4, <2>6, <2>7
<1> QED BY <1>2, <1>3, <1>4 DEF Writer

\* A run that finishes leaves its bundle before anything says it was there.
LEMMA WriterInv ==
    ASSUME StoreInv, NEW r \in Runs, Writer(r)
    PROVE  StoreInv'
<1>1. /\ StoreTyped /\ Traced
      /\ \A s \in Runs : OnDisk(s) \/ Known(s) => Left(s)
  BY DEF StoreInv, Traced
<1>2. /\ writer' \in [Runs -> WriterStates] /\ Left(r)'
      /\ \A s \in Runs : s # r => writer'[s] = writer[s] /\ bundle'[s] = bundle[s] /\ row'[s] = row[s]
      /\ bundle' \in [Runs -> Content \cup {None}] /\ row' \in [Runs -> Rows \cup {None}]
      /\ cmd' = cmd /\ operator' = operator /\ calm' \in [Commands -> BOOLEAN]
      /\ writer'[r].at \in {"written", "stamped"} => writer'[r].verdict \in {"clean", "invalid"}
      /\ \/ ~Left(r) /\ row' = row /\ writer'[r].at = "written" /\ bundle'[r] \in Content
         \/ /\ writer[r].at = "written" /\ bundle' = bundle /\ row' = row
         \/ /\ writer[r].at = "stamped" /\ bundle' = bundle /\ writer'[r].at = "done"
         \/ bundle' = bundle /\ row' = row /\ writer'[r].at = "done"
  BY WriterSteps
<1>3. /\ \A s \in Runs : Left(s) => Left(s)'
      /\ \A s \in Runs : OnDisk(s) => OnDisk(s)'
      /\ \A s \in Runs : s # r => (OnDisk(s)' <=> OnDisk(s)) /\ (Known(s)' <=> Known(s))
      /\ ~Left(r) \/ (OnDisk(r)' => OnDisk(r))
  BY <1>2, NoneIsNothing DEF Left, OnDisk, Known
<1>4. StoreTyped'
  BY <1>1, <1>2 DEF StoreTyped
<1>5. Traced'
  <2>1. \A s \in Runs : OnDisk(s)' \/ Known(s)' => Left(s)'
    BY <1>1, <1>2, <1>3
  <2>2. ASSUME NEW q \in Commands PROVE Fits(cmd[q])'
    <3>1. Fits(cmd[q]) /\ cmd[q] \in CommandStates /\ cmd'[q] = cmd[q]
      BY <1>1, <1>2 DEF Traced, StoreTyped
    <3>2. PICK c \in CommandStates : c = cmd[q]
      BY <3>1
    <3>3. Fits(c)
      BY <3>1, <3>2
    <3>4. Fits(c)'
      <4>1. c.disk \subseteq Runs /\ c.todo \subseteq Runs /\ c.run \in Runs \cup {None}
        BY DEF CommandStates
      <4>2. c.at \in {"forget", "prune_forget"} => ~OnDisk(c.run)'
        BY <1>3, <3>3, <4>1, NoneIsNothing DEF Fits
      <4> QED BY <1>3, <3>3, <4>1, <4>2 DEF Fits, Holds
    <3>5. cmd'[q] = c
      BY <3>1, <3>2
    <3> QED BY <3>4, <3>5 DEF Fits, Holds
  <2> QED BY <2>1, <2>2 DEF Traced
<1>6. NewestKept'
  <2>1. \A s \in Runs : WasThere(s)' => WasThere(s) \/ OnDisk(s)'
    <3>1. \A q \in Commands : cmd'[q] = cmd[q]
      BY <1>2
    <3>2. \A s \in Runs : s # r => (WasThere(s)' => WasThere(s))
      BY <1>2, <1>3, <3>1 DEF WasThere, Holds
    <3>3. WasThere(r)' => WasThere(r) \/ OnDisk(r)'
      <4>1. CASE bundle'[r] \in Content
        BY <4>1, NoneIsNothing DEF OnDisk
      <4>2. CASE writer[r].at \in {"written", "stamped"}
        BY <4>2 DEF WasThere
      <4>3. CASE bundle' = bundle /\ row' = row /\ writer'[r].at = "done"
        BY <3>1, <4>3 DEF WasThere, Holds, Known
      <4> QED BY <1>2, <4>1, <4>2, <4>3
    <3> QED BY <3>2, <3>3
  <2>2. \A s \in Runs, q \in Commands : Prunes(cmd'[q]) /\ s \in cmd'[q].todo =>
            \E o \in Commands : Prunes(cmd[o]) /\ s \in cmd[o].todo
    BY <1>2
  <2> QED BY <1>2, <1>3, <2>1, <2>2, NewestIfNothingGoes
<1> QED BY <1>4, <1>5, <1>6 DEF StoreInv

\* The operator may rewrite a bundle, and a removal by hand ends the promise.
LEMMA OperatorInv ==
    ASSUME StoreInv, NEW r \in Runs, EditBundle(r) \/ RemoveByHand(r)
    PROVE  StoreInv'
<1>1. /\ StoreTyped /\ Traced
      /\ \A s \in Runs : OnDisk(s) \/ Known(s) => Left(s)
  BY DEF StoreInv, Traced
<1>2. /\ writer' = writer /\ row' = row /\ cmd' = cmd /\ OnDisk(r)
      /\ calm' \in [Commands -> BOOLEAN]
  BY DEF EditBundle, RemoveByHand, DisturbAll
<1>3. /\ bundle' \in [Runs -> Content \cup {None}]
      /\ \A s \in Runs : s # r => bundle'[s] = bundle[s]
      /\ bundle'[r] \in Content \/ RemoveByHand(r)
  <2>1. CASE EditBundle(r)
    <3>1. PICK verdict \in Verdicts :
             bundle' = [bundle EXCEPT ![r] = [version |-> bundle[r].version + 1, verdict |-> verdict]]
      BY <1>1, <2>1 DEF EditBundle, StoreTyped
    <3>2. bundle[r] \in Content
      BY <1>1, <1>2 DEF StoreTyped, OnDisk
    <3>3. [version |-> bundle[r].version + 1, verdict |-> verdict] \in Content
      BY <3>2 DEF Content
    <3> QED BY <1>1, <3>1, <3>3 DEF StoreTyped
  <2>2. CASE RemoveByHand(r)
    <3>1. bundle' = [bundle EXCEPT ![r] = None]
      BY <2>2 DEF RemoveByHand
    <3> QED BY <1>1, <2>2, <3>1 DEF StoreTyped
  <2> QED BY <2>1, <2>2
<1>4. /\ operator' \in [edits : Nat, removals : Nat, cutoff : 0..NRuns]
      /\ operator'.cutoff = operator.cutoff
      /\ \/ operator'.removals = operator.removals /\ bundle'[r] \in Content
         \/ operator'.removals # 0
  BY <1>1, <1>3 DEF EditBundle, RemoveByHand, StoreTyped
<1>5. \A s \in Runs : (OnDisk(s)' => OnDisk(s)) /\ (Known(s)' <=> Known(s))
  BY <1>2, <1>3 DEF OnDisk, Known
<1>6. StoreTyped' /\ Traced'
  <2>1. StoreTyped'
    BY <1>1, <1>2, <1>3, <1>4 DEF StoreTyped
  <2>2. ASSUME NEW q \in Commands PROVE Fits(cmd[q])'
    BY <1>1, <1>2, <1>5, <2>2, NoneIsNothing DEF Traced, Fits, Holds, Left
  <2> QED BY <1>1, <1>2, <1>5, <2>1, <2>2 DEF Traced, Left
<1>7. NewestKept'
  <2>1. CASE operator'.removals = operator.removals /\ bundle'[r] \in Content
    <3>1. \A s \in Runs : OnDisk(s) => OnDisk(s)'
      BY <1>3, <2>1, NoneIsNothing DEF OnDisk
    <3>2. \A s \in Runs : WasThere(s)' => WasThere(s)
      BY <1>2, <1>5 DEF WasThere, Holds
    <3> QED BY <1>2, <1>4, <2>1, <3>1, <3>2, NewestIfNothingGoes
  <2>2. CASE operator'.removals # 0
    BY <2>2 DEF NewestKept
  <2> QED BY <1>4, <2>1, <2>2
<1> QED BY <1>6, <1>7 DEF StoreInv

LEMMA StoreStutter ==
    ASSUME StoreInv, UNCHANGED vars
    PROVE  StoreInv'
BY DEF vars, StoreInv, StoreTyped, Traced, Fits, Left, Holds, NewestKept, WasThere, Superseded,
       Window, OnDisk, Known, Prunes

\* Every step keeps the invariant.
LEMMA StoreInvNext == StoreInv /\ [Next]_vars => StoreInv'
<1> SUFFICES ASSUME StoreInv, [Next]_vars PROVE StoreInv'
  OBVIOUS
<1>1. ASSUME NEW r \in Runs, Writer(r) PROVE StoreInv'
  BY <1>1, WriterInv
<1>2. ASSUME NEW r \in Runs, EditBundle(r) \/ RemoveByHand(r) PROVE StoreInv'
  BY <1>2, OperatorInv
<1>3. ASSUME NEW p \in Commands, Command(p) PROVE StoreInv'
  BY <1>3, QuietSteps, RowSteps, SelectStep, RemoveStep DEF Command
<1> QED BY <1>1, <1>2, <1>3, StoreStutter DEF Next

LEMMA StoreInvariant == Spec => []StoreInv
<1> QED BY StoreInvInit, StoreInvNext, PTL DEF Spec

\* PruneKeepsTheNewest: with any number of commands pruning at once, any
\* --keep-last and any cutoff, while runs finish, crash and are edited, a run
\* that is not too old is gone only once --keep-last newer ones are on disk.
THEOREM PruneAlwaysKeepsTheNewest == Spec => []PruneKeepsTheNewest
<1>1. StoreInv => PruneKeepsTheNewest
  <2> SUFFICES ASSUME StoreInv, operator.removals = 0, NEW r \in (operator.cutoff + 1)..NRuns,
                      Known(r), ~OnDisk(r)
               PROVE  Cardinality({newer \in (r + 1)..NRuns : OnDisk(newer)}) >= KeepLast
    BY DEF PruneKeepsTheNewest
  <2>1. r \in Runs /\ r > operator.cutoff
    BY RunStoreAssumption DEF StoreInv, StoreTyped, Runs
  <2> QED BY <2>1 DEF StoreInv, NewestKept, WasThere, Superseded, Window
<1> QED BY <1>1, StoreInvariant, PTL
-----------------------------------------------------------------------------
(* When nothing is edited under a command                                  *)

LEMMA UneditedInit == Init => Unedited
BY DEF Init, Unedited, Truthful, Informed, Steady, Holds, Prunes, Known, NotRunning

LEMMA SameCommand ==
    ASSUME NEW q, NEW d, cmd'[q] = d
    PROVE  /\ Informed(d)' => Informed(cmd[q])'
           /\ Steady(d)' => Steady(cmd[q])'
BY DEF Informed, Steady, Holds, Prunes, StillToRead, StillToForget

\* A command goes on being informed as long as nothing is rewritten under it
\* and no row becomes stale.
LEMMA InformedKept ==
    ASSUME NEW c \in CommandStates, Informed(c), Fits(c),
           \A r \in Runs : Left(r) => bundle'[r] \in {bundle[r], None},
           \A r \in Runs : Stale(r)' => Stale(r)
    PROVE  Informed(c)'
<1>1. \A r \in Runs : Left(r) /\ OnDisk(r)' => OnDisk(r) /\ bundle'[r] = bundle[r]
  BY DEF OnDisk
<1>2. Holds(c) => c.run \in Runs /\ Left(c.run)
  BY NoneIsNothing DEF Holds, Fits
<1>3. Prunes(c) => \A r \in c.todo : r \in Runs /\ Left(r)
  BY DEF Prunes, Fits, CommandStates
<1>4. StillToRead(c)' = StillToRead(c) /\ (Holds(c)' <=> Holds(c)) /\ (Prunes(c)' <=> Prunes(c))
  BY DEF StillToRead, Holds, Prunes
<1>5. Holds(c) => /\ OnDisk(c.run)' => bundle'[c.run] = c.read
                  /\ c.at = "record" => c.stamp \in {0, c.read.version}
  BY <1>1, <1>2 DEF Informed
<1>6. c.at # "idle" => \A r \in Runs : Stale(r)' => r \in StillToRead(c)
  BY DEF Informed
<1>7. Prunes(c) => \A r \in c.todo : OnDisk(r)' => bundle'[r].verdict # "invalid"
  BY <1>1, <1>3 DEF Informed
<1> QED BY <1>4, <1>5, <1>6, <1>7 DEF Informed

LEMMA EveryoneInformed ==
    ASSUME StoreInv, Unedited, NEW P \in SUBSET Commands,
           \A q \in P : cmd'[q] = cmd[q],
           \A r \in Runs : Left(r) => bundle'[r] \in {bundle[r], None},
           \A r \in Runs : Stale(r)' => Stale(r)
    PROVE  \A q \in P : Informed(cmd[q])'
<1> SUFFICES ASSUME NEW q \in P PROVE Informed(cmd[q])'
  OBVIOUS
<1>1. PICK d \in CommandStates : d = cmd[q]
  BY DEF StoreInv, StoreTyped
<1>2. Informed(d) /\ Fits(d)
  BY <1>1 DEF StoreInv, Traced, Unedited
<1>3. Informed(d)'
  BY <1>2, InformedKept
<1> QED BY <1>1, <1>3, SameCommand

LEMMA EveryoneSteady ==
    ASSUME Unedited, NEW P \in SUBSET Commands,
           \A q \in P : cmd'[q] = cmd[q] /\ (calm'[q] => calm[q]),
           bundle' = bundle, row' = row
    PROVE  \A q \in P : calm'[q] => Steady(cmd[q])'
<1> SUFFICES ASSUME NEW q \in P, calm'[q] PROVE Steady(cmd[q])'
  OBVIOUS
<1>1. PICK d : d = cmd[q]
  OBVIOUS
<1>2. Steady(d)
  BY <1>1 DEF Unedited
<1>3. Steady(d)'
  BY <1>2 DEF Steady, StillToRead, StillToForget, OnDisk, Known, Readable, UpToDate
<1> QED BY <1>1, <1>3, SameCommand

\* A command that changes no file: what remains is what it knows now.
LEMMA QuietUnedited ==
    ASSUME StoreInv, Unedited, NEW p \in Commands, NEW c, Moves(p, c), UNCHANGED files,
           \A q \in Commands : q # p /\ calm'[q] => calm[q],
           Informed(c), calm'[p] => Steady(c)
    PROVE  Unedited'
<1>1. writer' = writer /\ bundle' = bundle /\ row' = row
  BY DEF files
<1>2. Truthful'
  BY <1>1 DEF Unedited, Truthful, OnDisk, Known
<1>3. \A r \in Runs : Stale(r)' <=> Stale(r)
  BY <1>1 DEF Stale, Readable, UpToDate, OnDisk, Known
<1>4. c \in CommandStates /\ cmd'[p] = c
  BY DEF Moves
<1>5. Informed(cmd[p])'
  <2>1. Informed(c)'
    BY <1>1, <1>3 DEF Informed, Holds, Prunes, StillToRead, OnDisk
  <2> QED BY <1>4, <2>1, SameCommand
<1>6. calm'[p] => Steady(cmd[p])'
  <2>1. Steady(c) => Steady(c)'
    BY <1>1 DEF Steady, StillToRead, StillToForget, OnDisk, Known, Readable, UpToDate
  <2> QED BY <1>4, <2>1, SameCommand
<1>7. \A q \in Commands \ {p} : Informed(cmd[q])'
  BY <1>1, <1>3, EveryoneInformed DEF Moves
<1>8. \A q \in Commands \ {p} : calm'[q] => Steady(cmd[q])'
  BY <1>1, EveryoneSteady DEF Moves
<1> QED BY <1>2, <1>5, <1>6, <1>7, <1>8 DEF Unedited

\* A row that is current describes the file that is there.
LEMMA CurrentRows ==
    ASSUME StoreInv, Unedited, NEW r \in Runs, IsCurrent(r)
    PROVE  ~(Readable(r) /\ ~UpToDate(r))
<1>1. Known(r) /\ row[r].stamp # 0 /\ row[r].stamp = Identity(r)
  BY DEF IsCurrent
<1>2. row[r].stamp = row[r].of
  BY <1>1 DEF Unedited, Truthful
<1> QED BY <1>1, <1>2 DEF Identity, UpToDate

\* A command strikes a run off only when it has nothing left to do to it.
LEMMA QuietStepsUnedited ==
    ASSUME StoreInv, Unedited, NEW p \in Commands,
           \/ Begin(p) \/ ScanEnds(p) \/ ReadBundle(p) \/ StampRow(p)
           \/ (\E r \in Runs : ScanEntry(p, r)) \/ CheckRow(p)
           \/ ListKnown(p) \/ Recheck(p) \/ Reconciled(p) \/ Finish(p) \/ Abandon(p)
    PROVE  Unedited'
<1>1. /\ StoreTyped /\ Traced /\ Fits(cmd[p]) /\ cmd[p] \in CommandStates
      /\ Informed(cmd[p]) /\ (calm[p] => Steady(cmd[p]))
      /\ DOMAIN calm = Commands
  BY DEF StoreInv, Traced, StoreTyped, Unedited
<1>2. CASE Begin(p)
  <2>1. /\ UNCHANGED files /\ \A q \in Commands : q # p /\ calm'[q] => calm[q]
    BY <1>1, <1>2 DEF Begin
  <2>2. PICK c : Moves(p, c) /\ c = Doing("scan", {}, Runs, None, None, 0)
    BY <1>1, <1>2, BeginMoves
  <2>3. Informed(c) /\ Steady(c)
    BY <2>2 DEF Informed, Steady, Prunes, Holds, Doing, StillToRead
  <2> QED BY <2>1, <2>2, <2>3, QuietUnedited
<1>3. CASE \E r \in Runs : ScanEntry(p, r)
  <2>1. PICK r \in Runs : ScanEntry(p, r)
    BY <1>3
  <2>2. /\ UNCHANGED files /\ calm' = calm
    BY <2>1 DEF ScanEntry
  <2>3. PICK c : /\ cmd[p].at = "scan" /\ Moves(p, c)
                 /\ c = Doing("scan", IF OnDisk(r) THEN cmd[p].disk \cup {r} ELSE cmd[p].disk,
                              cmd[p].todo \ {r}, cmd[p].run, cmd[p].read, cmd[p].stamp)
    BY <1>1, <2>1, ScanEntryMoves
  <2>4. \A s \in StillToRead(cmd[p]) : Readable(s) => s \in StillToRead(c)
    BY <2>3 DEF StillToRead, Doing, Readable
  <2>5. Informed(c)
    BY <1>1, <2>3, <2>4 DEF Informed, Prunes, Holds, Doing, Stale
  <2>6. calm[p] => Steady(c)
    BY <1>1, <2>3, <2>4 DEF Steady, Doing
  <2> QED BY <2>2, <2>3, <2>5, <2>6, QuietUnedited
<1>4. CASE ScanEnds(p)
  <2>1. /\ UNCHANGED files /\ calm' = calm
    BY <1>4 DEF ScanEnds
  <2>2. PICK c : /\ cmd[p].at = "scan" /\ cmd[p].todo = {} /\ Moves(p, c)
                 /\ c = Doing("refresh", cmd[p].disk, cmd[p].disk, cmd[p].run, cmd[p].read,
                              cmd[p].stamp)
    BY <1>1, <1>4, ScanEndsMoves
  <2>3. StillToRead(c) = StillToRead(cmd[p])
    BY <2>2 DEF StillToRead, Doing
  <2>4. Informed(c)
    BY <1>1, <2>2, <2>3 DEF Informed, Prunes, Holds, Doing
  <2>5. calm[p] => Steady(c)
    BY <1>1, <2>2, <2>3 DEF Steady, Doing
  <2> QED BY <2>1, <2>2, <2>4, <2>5, QuietUnedited
<1>5. CASE CheckRow(p)
  <2>1. /\ UNCHANGED files /\ calm' = calm
    BY <1>5 DEF CheckRow
  <2>2. PICK least \in Runs, c \in CommandStates :
             /\ cmd[p].at = "refresh" /\ least \in cmd[p].todo
             /\ Moves(p, c)
             /\ c = Doing(IF IsCurrent(least) THEN "refresh" ELSE "read", cmd[p].disk,
                          cmd[p].todo \ {least}, IF IsCurrent(least) THEN None ELSE least,
                          cmd[p].read, cmd[p].stamp)
    BY <1>1, <1>5, CheckRowMoves DEF Moves
  <2>3. \A s \in StillToRead(cmd[p]) : Readable(s) /\ ~UpToDate(s) => s \in StillToRead(c)
    BY <2>2, CurrentRows DEF StillToRead, Doing
  <2>4. Informed(c)
    BY <1>1, <2>2, <2>3 DEF Informed, Prunes, Holds, Doing, Stale
  <2>5. calm[p] => Steady(c)
    BY <1>1, <2>2, <2>3 DEF Steady, Doing
  <2> QED BY <2>1, <2>2, <2>4, <2>5, QuietUnedited
<1>6. CASE ReadBundle(p)
  <2>1. /\ UNCHANGED files /\ calm' = calm
    BY <1>6 DEF ReadBundle
  <2>2. PICK c : /\ cmd[p].at = "read" /\ Moves(p, c)
                 /\ c = Doing(IF Readable(cmd[p].run) THEN "stamp" ELSE "refresh",
                              cmd[p].disk, cmd[p].todo,
                              IF Readable(cmd[p].run) THEN cmd[p].run ELSE None,
                              IF Readable(cmd[p].run) THEN bundle[cmd[p].run] ELSE cmd[p].read,
                              cmd[p].stamp)
    BY <1>1, <1>6, ReadBundleMoves
  <2>3. \A s \in StillToRead(cmd[p]) : Readable(s) => s \in StillToRead(c)
    BY <2>2 DEF StillToRead, Doing
  <2>4. Informed(c)
    BY <1>1, <2>2, <2>3 DEF Informed, Prunes, Holds, Doing, Stale
  <2>5. calm[p] => Steady(c)
    BY <1>1, <2>2, <2>3 DEF Steady, Doing
  <2> QED BY <2>1, <2>2, <2>4, <2>5, QuietUnedited
<1>7. CASE StampRow(p)
  <2>1. /\ UNCHANGED files /\ calm' = calm
    BY <1>7 DEF StampRow
  <2>2. PICK c : /\ cmd[p].at = "stamp" /\ Moves(p, c)
                 /\ c = Doing("record", cmd[p].disk, cmd[p].todo, cmd[p].run, cmd[p].read,
                              Identity(cmd[p].run))
    BY <1>1, <1>7, StampRowMoves
  <2>3. StillToRead(c) = StillToRead(cmd[p])
    BY <2>2 DEF StillToRead, Doing
  <2>4. Identity(cmd[p].run) \in {0, cmd[p].read.version}
    BY <1>1, <2>2 DEF Informed, Holds, Identity
  <2>5. Informed(c)
    BY <1>1, <2>2, <2>3, <2>4 DEF Informed, Prunes, Holds, Doing
  <2>6. calm[p] => Steady(c)
    BY <1>1, <2>2, <2>3 DEF Steady, Doing
  <2> QED BY <2>1, <2>2, <2>5, <2>6, QuietUnedited
<1>8. CASE ListKnown(p)
  <2>1. /\ UNCHANGED files /\ calm' = calm
    BY <1>8 DEF ListKnown
  <2>2. PICK c : /\ cmd[p].at = "refresh" /\ cmd[p].todo = {} /\ Moves(p, c)
                 /\ c = Doing("recheck", {}, {r \in Runs : Known(r)} \ cmd[p].disk, None,
                              cmd[p].read, cmd[p].stamp)
    BY <1>1, <1>8, ListKnownMoves
  <2>3. StillToRead(cmd[p]) = {}
    BY <2>2 DEF StillToRead
  <2>4. Informed(c)
    BY <1>1, <2>2, <2>3 DEF Informed, Prunes, Holds, Doing
  <2>5. calm[p] => Steady(c)
    BY <1>1, <2>2, <2>3 DEF Steady, Doing, StillToForget
  <2> QED BY <2>1, <2>2, <2>4, <2>5, QuietUnedited
<1>9. CASE Recheck(p)
  <2>1. /\ UNCHANGED files /\ calm' = calm
    BY <1>9 DEF Recheck
  <2>2. PICK newest \in Runs, c \in CommandStates :
             /\ cmd[p].at = "recheck" /\ newest \in cmd[p].todo
             /\ Moves(p, c)
             /\ c = Doing(IF OnDisk(newest) THEN "recheck" ELSE "forget", cmd[p].disk,
                          cmd[p].todo \ {newest}, IF OnDisk(newest) THEN None ELSE newest,
                          cmd[p].read, cmd[p].stamp)
    BY <1>1, <1>9, RecheckMoves DEF Moves
  <2>3. StillToRead(cmd[p]) = {}
    BY <2>2 DEF StillToRead
  <2>4. Informed(c)
    BY <1>1, <2>2, <2>3 DEF Informed, Prunes, Holds, Doing
  <2>5. \A s \in StillToForget(cmd[p]) : ~OnDisk(s) => s \in StillToForget(c)
    BY <2>2 DEF StillToForget, Doing
  <2>6. calm[p] => Steady(c)
    BY <1>1, <2>2, <2>3, <2>5 DEF Steady, Doing
  <2> QED BY <2>1, <2>2, <2>4, <2>6, QuietUnedited
<1>10. CASE Reconciled(p)
  <2>1. /\ UNCHANGED files /\ calm' = calm
    BY <1>10 DEF Reconciled
  <2>2. PICK c : /\ cmd[p].at = "recheck" /\ cmd[p].todo = {} /\ Moves(p, c)
                 /\ c = Doing("reconciled", cmd[p].disk, cmd[p].todo, cmd[p].run,
                              cmd[p].read, cmd[p].stamp)
    BY <1>1, <1>10, ReconciledMoves
  <2>3. StillToRead(cmd[p]) = {} /\ StillToForget(cmd[p]) = StillToForget(c)
    BY <2>2 DEF StillToRead, StillToForget, Doing
  <2>4. Informed(c)
    BY <1>1, <2>2, <2>3 DEF Informed, Prunes, Holds, Doing
  <2>5. calm[p] => Steady(c)
    BY <1>1, <2>2, <2>3 DEF Steady, Doing
  <2> QED BY <2>1, <2>2, <2>4, <2>5, QuietUnedited
<1>11. CASE Finish(p) \/ Abandon(p)
  <2>1. /\ UNCHANGED files /\ ~calm'[p] /\ \A q \in Commands : q # p /\ calm'[q] => calm[q]
    BY <1>1, <1>11 DEF Finish, Abandon
  <2>2. PICK c : Moves(p, c) /\ c = Doing("idle", {}, {}, None, None, 0)
    BY <1>1, <1>11, FinishMoves, AbandonMoves
  <2>3. Informed(c)
    BY <2>2 DEF Informed, Prunes, Holds, Doing
  <2> QED BY <2>1, <2>2, <2>3, QuietUnedited
<1> QED BY <1>2, <1>3, <1>4, <1>5, <1>6, <1>7, <1>8, <1>9, <1>10, <1>11

\* A row that is written describes what is there, and one that goes had nothing
\* left to describe.
LEMMA RowStepsUnedited ==
    ASSUME StoreInv, Unedited, NEW p \in Commands, RecordRow(p) \/ Forget(p) \/ ForgetPruned(p)
    PROVE  Unedited'
<1>1. /\ StoreTyped /\ Traced /\ Fits(cmd[p]) /\ cmd[p] \in CommandStates
      /\ Informed(cmd[p]) /\ (calm[p] => Steady(cmd[p]))
  BY DEF StoreInv, Traced, StoreTyped, Unedited
<1>2. PICK run \in Runs, new \in Rows \cup {None} :
         /\ run = cmd[p].run /\ Left(run)
         /\ row' = [row EXCEPT ![run] = new]
         /\ \/ RecordRow(p) /\ new = Row(cmd[p].read, cmd[p].stamp) /\ new \in Rows
            \/ (Forget(p) \/ ForgetPruned(p)) /\ ~OnDisk(run) /\ new \in {None, row[run]}
  <2>1. cmd[p].run \in Runs /\ Left(cmd[p].run)
    BY <1>1, NoneIsNothing DEF RecordRow, Forget, ForgetPruned, Fits
  <2>2. CASE RecordRow(p)
    <3>1. Row(cmd[p].read, cmd[p].stamp) \in Rows
      BY <1>1, <2>2 DEF RecordRow, Row, Rows, Content, Verdicts, Fits, Holds, CommandStates
    <3> QED BY <2>1, <2>2, <3>1 DEF RecordRow
  <2>3. CASE Forget(p) \/ ForgetPruned(p)
    <3>1. ~OnDisk(cmd[p].run)
      BY <1>1, <2>3 DEF Forget, ForgetPruned, Fits
    <3>2. PICK new \in {None, row[cmd[p].run]} : row' = [row EXCEPT ![cmd[p].run] = new]
      <4>1. row' = row \/ row' = [row EXCEPT ![cmd[p].run] = None]
        BY <2>3 DEF Forget, ForgetPruned
      <4>2. row = [row EXCEPT ![cmd[p].run] = row[cmd[p].run]]
        BY <1>1, <2>1 DEF StoreTyped
      <4> QED BY <4>1, <4>2
    <3>3. row[cmd[p].run] \in Rows \cup {None}
      BY <1>1, <2>1 DEF StoreTyped
    <3> QED BY <2>1, <2>3, <3>1, <3>2, <3>3
  <2> QED BY <2>2, <2>3
<1>3. /\ writer' = writer /\ bundle' = bundle
      /\ calm' = [q \in Commands |-> calm[q] /\ q = p]
      /\ \A r \in Runs : OnDisk(r)' <=> OnDisk(r)
  BY DEF RecordRow, Forget, ForgetPruned, DisturbOthers, OnDisk
<1>4. /\ row'[run] = new /\ \A r \in Runs : r # run => row'[r] = row[r]
  BY <1>1, <1>2 DEF StoreTyped
<1>5. OnDisk(run) => /\ RecordRow(p) /\ new = Row(bundle[run], cmd[p].stamp)
                     /\ cmd[p].stamp \in {0, bundle[run].version}
  BY <1>1, <1>2 DEF Informed, Holds, RecordRow
<1>6. new # None => new.stamp \in {0, new.of} \/ new = row[run]
  BY <1>1, <1>2 DEF Informed, Holds, RecordRow, Row
<1>7. OnDisk(run) => UpToDate(run)'
  BY <1>2, <1>3, <1>4, <1>5, NoneIsNothing DEF UpToDate, Known, Row, Rows
<1>8. Truthful'
  <2> SUFFICES ASSUME NEW r \in Runs, Known(r)'
               PROVE  /\ row'[r].stamp \in {0, row'[r].of}
                      /\ OnDisk(r) => row'[r].of <= bundle[r].version
                      /\ OnDisk(r) /\ row'[r].of = bundle[r].version =>
                           row'[r].verdict = bundle[r].verdict
    BY <1>3 DEF Unedited, Truthful, Known, OnDisk
  <2>1. CASE r # run
    BY <1>4, <2>1 DEF Unedited, Truthful, Known
  <2>2. CASE r = run
    <3>1. row'[r].stamp \in {0, row'[r].of}
      BY <1>4, <1>6, <2>2 DEF Unedited, Truthful, Known
    <3>2. OnDisk(r) => /\ bundle[r] \in Content /\ row'[r].of = bundle[r].version
                       /\ row'[r].verdict = bundle[r].verdict
      BY <1>1, <1>4, <1>5, <2>2 DEF Row, StoreTyped, OnDisk
    <3> QED BY <3>1, <3>2 DEF Content
  <2> QED BY <2>1, <2>2
<1>9. \A r \in Runs : r # run \/ ~OnDisk(run) =>
            /\ Stale(r)' => Stale(r)
            /\ Readable(r)' <=> Readable(r)
            /\ r # run => (UpToDate(r)' <=> UpToDate(r))
  BY <1>3, <1>4 DEF Stale, Readable, UpToDate, OnDisk, Known
<1>10. \A r \in Runs : Stale(r)' => Stale(r) /\ r # run
  BY <1>3, <1>7, <1>9 DEF Stale, Readable, OnDisk
<1>11. \A r \in Runs : Readable(r)' /\ ~UpToDate(r)' => Readable(r) /\ ~UpToDate(r) /\ r # run
  BY <1>3, <1>7, <1>9 DEF Readable, OnDisk
<1>12. \A q \in Commands \ {p} : Informed(cmd[q])'
  <2>1. \A q \in Commands \ {p} : cmd'[q] = cmd[q]
    BY <1>1, RecordRowMoves, ForgetMoves, ForgetPrunedMoves DEF Moves
  <2> QED BY <1>3, <1>10, <2>1, EveryoneInformed
<1>13. PICK c : /\ Moves(p, c)
                /\ \/ /\ cmd[p].at = "record"
                      /\ c = Doing("refresh", cmd[p].disk, cmd[p].todo, None, None, 0)
                   \/ /\ cmd[p].at = "forget"
                      /\ c = Doing("recheck", cmd[p].disk, cmd[p].todo, None,
                                   cmd[p].read, cmd[p].stamp)
                   \/ /\ cmd[p].at = "prune_forget"
                      /\ c = Doing("prune", cmd[p].disk, cmd[p].todo, None,
                                   cmd[p].read, cmd[p].stamp)
  BY <1>1, RecordRowMoves, ForgetMoves, ForgetPrunedMoves
<1>14. /\ cmd'[p] = c /\ c.todo = cmd[p].todo /\ c.disk = cmd[p].disk /\ ~Holds(c)
       /\ c.at \in {"refresh", "recheck", "prune"}
       /\ (Prunes(c) <=> Prunes(cmd[p])) /\ cmd[p].at # "idle"
       /\ StillToRead(cmd[p]) \subseteq StillToRead(c) \cup {run}
       /\ StillToForget(cmd[p]) \subseteq StillToForget(c) \cup {run}
  BY <1>2, <1>13 DEF Moves, Doing, Holds, Prunes, StillToRead, StillToForget
<1>15. Informed(cmd[p])'
  <2>1. Informed(c)'
    <3>1. \A r \in Runs : Stale(r)' => r \in StillToRead(c)
      BY <1>1, <1>10, <1>14 DEF Informed
    <3>2. Prunes(c) => \A r \in c.todo : OnDisk(r)' => bundle'[r].verdict # "invalid"
      BY <1>1, <1>3, <1>14 DEF Informed, OnDisk
    <3>3. StillToRead(c)' = StillToRead(c) /\ ~Holds(c)' /\ (Prunes(c)' <=> Prunes(c))
      BY <1>14 DEF StillToRead, Holds, Prunes
    <3> QED BY <3>1, <3>2, <3>3 DEF Informed
  <2> QED BY <1>14, <2>1, SameCommand
<1>16. calm'[p] => Steady(cmd[p])'
  <2> SUFFICES ASSUME calm[p] PROVE Steady(cmd[p])'
    BY <1>3
  <2>1. Steady(cmd[p]) /\ c.at \in {"refresh", "recheck"}
    BY <1>1, <1>14 DEF Steady, Prunes
  <2>2. \A r \in c.disk : OnDisk(r)'
    <3>1. c.disk \subseteq Runs
      BY <1>1, <1>14 DEF CommandStates
    <3> QED BY <1>3, <1>14, <2>1, <3>1 DEF Steady
  <2>3. \A r \in Runs : Readable(r)' /\ ~UpToDate(r)' => r \in StillToRead(c)
    BY <1>11, <1>14, <2>1 DEF Steady
  <2>4. c.at = "recheck" => \A r \in Runs : Known(r)' /\ ~OnDisk(r)' => r \in StillToForget(c)
    <3> SUFFICES ASSUME c.at = "recheck", NEW r \in Runs, Known(r)', ~OnDisk(r)'
                 PROVE  r \in StillToForget(c)
      OBVIOUS
    <3>1. cmd[p].at = "forget"
      BY <1>13 DEF Doing
    <3>2. r # run
      <4>1. row' = [row EXCEPT ![cmd[p].run] = None]
        BY <3>1 DEF RecordRow, Forget, ForgetPruned
      <4> QED BY <1>1, <1>2, <4>1 DEF Known, StoreTyped
    <3> QED BY <1>3, <1>4, <1>14, <2>1, <3>1, <3>2 DEF Steady, Known
  <2>5. Steady(c)'
    BY <2>1, <2>2, <2>3, <2>4 DEF Steady, StillToRead, StillToForget
  <2> QED BY <1>14, <2>5, SameCommand
<1>17. \A q \in Commands \ {p} : ~calm'[q]
  BY <1>3
<1> QED BY <1>8, <1>12, <1>15, <1>16, <1>17 DEF Unedited

\* Prune goes by the verdicts in the rows, and none of them is stale by then.
LEMMA SelectUnedited ==
    ASSUME StoreInv, Unedited, NEW p \in Commands, SelectRuns(p)
    PROVE  Unedited'
<1>1. /\ StoreTyped /\ Traced /\ Fits(cmd[p]) /\ cmd[p] \in CommandStates
      /\ Informed(cmd[p])
  BY DEF StoreInv, Traced, StoreTyped, Unedited
<1>2. /\ writer' = writer /\ bundle' = bundle /\ row' = row /\ cmd[p].at = "reconciled"
      /\ calm' = [calm EXCEPT ![p] = FALSE]
  BY DEF SelectRuns
<1>3. PICK cutoff \in 0..NRuns, todo \in SUBSET Runs :
         /\ \A r \in todo : Known(r) /\ row[r].verdict # "invalid"
         /\ Moves(p, Doing("prune", cmd[p].disk, todo, cmd[p].run, cmd[p].read, cmd[p].stamp))
  BY <1>1, SelectMoves
<1>4. PICK c : /\ c = Doing("prune", cmd[p].disk, todo, cmd[p].run, cmd[p].read, cmd[p].stamp)
               /\ Moves(p, c)
  BY <1>3
<1>5. \A r \in Runs : ~Stale(r)
  BY <1>1, <1>2 DEF Informed, StillToRead
<1>6. \A r \in todo : OnDisk(r) => bundle[r].verdict # "invalid"
  <2> SUFFICES ASSUME NEW r \in todo, OnDisk(r), bundle[r].verdict # "unreadable"
               PROVE  bundle[r].verdict # "invalid"
    OBVIOUS
  <2>1. Known(r) /\ row[r].verdict # "invalid" /\ UpToDate(r)
    BY <1>3, <1>5 DEF Stale, Readable
  <2>2. row[r].verdict = bundle[r].verdict
    BY <2>1 DEF Unedited, Truthful, UpToDate
  <2> QED BY <2>1, <2>2
<1>7. Truthful'
  BY <1>2 DEF Unedited, Truthful, OnDisk, Known
<1>8. \A r \in Runs : ~Stale(r)'
  BY <1>2, <1>5 DEF Stale, Readable, UpToDate, OnDisk, Known
<1>9. Informed(cmd[p])'
  <2>1. ~Holds(c) /\ c.at = "prune" /\ c.todo = todo
    BY <1>4 DEF Holds, Doing
  <2>2. Informed(c)'
    BY <1>2, <1>6, <1>8, <2>1 DEF Informed, Holds, Prunes, OnDisk
  <2>3. cmd'[p] = c
    BY <1>4 DEF Moves
  <2> QED BY <2>2, <2>3, SameCommand
<1>10. \A q \in Commands \ {p} : Informed(cmd[q])'
  <2>1. \A q \in Commands \ {p} : cmd'[q] = cmd[q]
    BY <1>4 DEF Moves
  <2> QED BY <1>2, <1>8, <2>1, EveryoneInformed
<1>11. \A q \in Commands \ {p} : calm'[q] => Steady(cmd[q])'
  <2>1. \A q \in Commands \ {p} : cmd'[q] = cmd[q] /\ (calm'[q] => calm[q])
    BY <1>1, <1>2, <1>4 DEF Moves, StoreTyped
  <2> QED BY <1>2, <2>1, EveryoneSteady
<1>12. ~calm'[p]
  BY <1>1, <1>2 DEF StoreTyped
<1> QED BY <1>7, <1>9, <1>10, <1>11, <1>12 DEF Unedited

\* A step that takes bundles away and disturbs every command.
LEMMA RemovalUnedited ==
    ASSUME StoreInv, Unedited, NEW r \in Runs,
           bundle' = bundle \/ bundle' = [bundle EXCEPT ![r] = None],
           writer' = writer, row' = row, \A p \in Commands : ~calm'[p]
    PROVE  /\ Truthful'
           /\ \A s \in Runs : Stale(s)' => Stale(s)
           /\ \A s \in Runs : bundle'[s] \in {bundle[s], None}
<1>1. \A s \in Runs : bundle'[s] \in {bundle[s], None}
  BY DEF StoreInv, StoreTyped
<1>2. \A s \in Runs : OnDisk(s)' => OnDisk(s) /\ bundle'[s] = bundle[s]
  BY <1>1 DEF OnDisk
<1>3. Truthful'
  BY <1>2 DEF Unedited, Truthful, Known
<1>4. \A s \in Runs : Stale(s)' => Stale(s)
  BY <1>2 DEF Stale, Readable, UpToDate, Known
<1> QED BY <1>1, <1>3, <1>4

\* Prune takes no invalid result.
LEMMA RemoveUnedited ==
    ASSUME StoreInv, Unedited, NEW p \in Commands, RemoveDirectory(p)
    PROVE  /\ Unedited'
           /\ \A r \in Runs : OnDisk(r) /\ bundle'[r] = None => bundle[r].verdict # "invalid"
<1>1. /\ StoreTyped /\ Traced /\ Fits(cmd[p]) /\ cmd[p] \in CommandStates
      /\ Informed(cmd[p]) /\ (calm[p] => Steady(cmd[p]))
  BY DEF StoreInv, Traced, StoreTyped, Unedited
<1>2. /\ writer' = writer /\ row' = row /\ cmd[p].at = "prune"
      /\ \A q \in Commands : ~calm'[q]
  <2>1. /\ writer' = writer /\ row' = row /\ cmd[p].at = "prune"
        /\ calm' = [q \in Commands |-> calm[q] /\ q = p]
    BY DEF RemoveDirectory, DisturbOthers
  <2>2. ~calm[p]
    BY <1>1, <2>1 DEF Steady
  <2> QED BY <2>1, <2>2
<1>3. PICK r \in cmd[p].todo :
         /\ bundle' = bundle \/ bundle' = [bundle EXCEPT ![r] = None]
         /\ \/ Moves(p, Doing("prune", cmd[p].disk, cmd[p].todo \ {r}, None,
                              cmd[p].read, cmd[p].stamp))
            \/ Moves(p, Doing("prune_forget", cmd[p].disk, cmd[p].todo \ {r}, r,
                              cmd[p].read, cmd[p].stamp))
  BY <1>1, RemoveMoves
<1>4. r \in Runs
  BY <1>1 DEF CommandStates
<1>5. PICK c : /\ Moves(p, c) /\ Prunes(c) /\ ~Holds(c) /\ c.todo = cmd[p].todo \ {r}
  BY <1>3 DEF Doing, Prunes, Holds
<1>6. /\ Truthful'
      /\ \A s \in Runs : Stale(s)' => Stale(s)
      /\ \A s \in Runs : bundle'[s] \in {bundle[s], None}
  BY <1>2, <1>3, <1>4, RemovalUnedited
<1>7. \A s \in Runs : ~Stale(s)
  BY <1>1, <1>2 DEF Informed, StillToRead
<1>8. Informed(cmd[p])'
  <2>1. \A s \in c.todo : s \in Runs /\ (OnDisk(s)' => OnDisk(s) /\ bundle'[s] = bundle[s])
    BY <1>1, <1>5, <1>6 DEF CommandStates, OnDisk
  <2>2. \A s \in c.todo : OnDisk(s)' => bundle'[s].verdict # "invalid"
    BY <1>1, <1>2, <1>5, <2>1 DEF Informed, Prunes
  <2>3. Informed(c)'
    BY <1>5, <1>6, <1>7, <2>2 DEF Informed, Holds, Prunes
  <2>4. cmd'[p] = c
    BY <1>5 DEF Moves
  <2> QED BY <2>3, <2>4, SameCommand
<1>9. \A q \in Commands \ {p} : Informed(cmd[q])'
  <2>1. \A q \in Commands \ {p} : cmd'[q] = cmd[q]
    BY <1>5 DEF Moves
  <2> QED BY <1>6, <2>1, EveryoneInformed
<1>10. \A s \in Runs : OnDisk(s) /\ bundle'[s] = None => bundle[s].verdict # "invalid"
  <2>1. \A s \in Runs : OnDisk(s) /\ bundle'[s] = None => s = r
    BY <1>1, <1>3, <1>4 DEF StoreTyped, OnDisk
  <2>2. OnDisk(r) => bundle[r].verdict # "invalid"
    BY <1>1, <1>2, <1>3 DEF Informed, Prunes
  <2> QED BY <2>1, <2>2
<1> QED BY <1>2, <1>6, <1>8, <1>9, <1>10 DEF Unedited

\* The row a writer leaves describes the bundle it wrote, if it is still there.
LEMMA WriterUnedited ==
    ASSUME StoreInv, Unedited, NEW r \in Runs, Writer(r)
    PROVE  Unedited'
<1>1. /\ StoreTyped /\ Traced
      /\ \A s \in Runs : OnDisk(s) \/ Known(s) => Left(s)
  BY DEF StoreInv, Traced
<1>2. /\ \A s \in Runs : s # r => writer'[s] = writer[s] /\ bundle'[s] = bundle[s] /\ row'[s] = row[s]
      /\ cmd' = cmd
      /\ \/ /\ ~Left(r) /\ row' = row /\ writer'[r].at = "written" /\ bundle'[r] \in Content
            /\ bundle'[r] = [version |-> 1, verdict |-> writer'[r].verdict]
         \/ /\ writer[r].at = "written" /\ bundle' = bundle /\ row' = row /\ writer'[r].at = "stamped"
            /\ writer'[r].verdict = writer[r].verdict /\ writer'[r].stamp = Identity(r)
         \/ /\ writer[r].at = "stamped" /\ bundle' = bundle /\ writer'[r].at = "done"
            /\ row'[r] = Row([version |-> 1, verdict |-> writer[r].verdict], writer[r].stamp)
            /\ row'[r] \in Rows
         \/ bundle' = bundle /\ row' = row /\ writer'[r].at = "done"
  BY WriterSteps
<1>3. /\ \A q \in Commands : calm'[q] => calm[q] /\ bundle' = bundle /\ row' = row
  BY <1>1 DEF Writer, WriteBundle, StampRun, RecordRun, LoseRun, DisturbAll
<1>4. /\ writer[r].at \in {"written", "stamped"} /\ OnDisk(r) =>
           bundle[r] = [version |-> 1, verdict |-> writer[r].verdict]
      /\ writer[r].at = "stamped" => writer[r].stamp \in {0, 1}
  BY DEF Unedited, Truthful
<1>5. Truthful'
  <2> DEFINE Truth(s) ==
          /\ Known(s) =>
               /\ row[s].stamp \in {0, row[s].of}
               /\ OnDisk(s) => row[s].of <= bundle[s].version
               /\ OnDisk(s) /\ row[s].of = bundle[s].version =>
                    row[s].verdict = bundle[s].verdict
          /\ writer[s].at \in {"written", "stamped"} /\ OnDisk(s) =>
               bundle[s] = [version |-> 1, verdict |-> writer[s].verdict]
          /\ writer[s].at = "stamped" => writer[s].stamp \in {0, 1}
  <2>1. \A s \in Runs : Truth(s)
    BY DEF Unedited, Truthful
  <2>2. \A s \in Runs : s # r => Truth(s)'
    BY <1>2, <2>1 DEF Known, OnDisk
  <2>3. Truth(r)'
    <3>1. CASE ~Left(r) /\ row' = row /\ writer'[r].at = "written"
               /\ bundle'[r] = [version |-> 1, verdict |-> writer'[r].verdict]
      BY <1>1, <3>1 DEF Known
    <3>2. CASE writer[r].at = "written" /\ bundle' = bundle /\ row' = row
               /\ writer'[r].verdict = writer[r].verdict /\ writer'[r].stamp = Identity(r)
      <4>1. Identity(r) \in {0, 1}
        BY <1>4, <3>2 DEF Identity
      <4> QED BY <1>4, <2>1, <3>2, <4>1 DEF Known, OnDisk
    <3>3. CASE writer[r].at = "stamped" /\ bundle' = bundle /\ writer'[r].at = "done"
               /\ row'[r] = Row([version |-> 1, verdict |-> writer[r].verdict], writer[r].stamp)
      BY <1>4, <3>3 DEF Known, OnDisk, Row
    <3>4. CASE bundle' = bundle /\ row' = row /\ writer'[r].at = "done"
      BY <2>1, <3>4 DEF Known, OnDisk
    <3> QED BY <1>2, <3>1, <3>2, <3>3, <3>4
  <2> HIDE DEF Truth
  <2>4. \A s \in Runs : Truth(s)'
    BY <2>2, <2>3
  <2> QED BY <2>4 DEF Truthful, Truth
<1>6. \A s \in Runs : Stale(s)' => Stale(s)
  <2>1. \A s \in Runs : s # r => (Stale(s)' => Stale(s))
    BY <1>2 DEF Stale, Readable, UpToDate, OnDisk, Known
  <2>2. Stale(r)' => Stale(r)
    <3>1. CASE ~Left(r) /\ row' = row
      BY <1>1, <3>1 DEF Stale, Known
    <3>2. CASE bundle' = bundle /\ row' = row
      BY <3>2 DEF Stale, Readable, UpToDate, OnDisk, Known
    <3>3. CASE writer[r].at = "stamped" /\ bundle' = bundle
               /\ row'[r] = Row([version |-> 1, verdict |-> writer[r].verdict], writer[r].stamp)
      BY <1>4, <3>3 DEF Stale, Readable, UpToDate, OnDisk, Known, Row
    <3> QED BY <1>2, <3>1, <3>2, <3>3
  <2> QED BY <2>1, <2>2
<1>7. \A q \in Commands : Informed(cmd[q])'
  <2>1. \A s \in Runs : Left(s) => bundle'[s] \in {bundle[s], None}
    BY <1>2 DEF Left
  <2> QED BY <1>2, <1>6, <2>1, EveryoneInformed
<1>8. \A q \in Commands : calm'[q] => Steady(cmd[q])'
  <2>1. CASE bundle' = bundle /\ row' = row
    BY <1>2, <1>3, <2>1, EveryoneSteady
  <2>2. CASE ~(bundle' = bundle /\ row' = row)
    BY <1>3, <2>2
  <2> QED BY <2>1, <2>2
<1> QED BY <1>5, <1>7, <1>8 DEF Unedited

\* Bundles are edited while every command is idle and every writer done.
LEMMA OperatorUnedited ==
    ASSUME StoreInv, Unedited, ~EditsAnytime, NEW r \in Runs, EditBundle(r) \/ RemoveByHand(r)
    PROVE  Unedited'
<1>1. /\ writer' = writer /\ row' = row /\ cmd' = cmd /\ OnDisk(r)
      /\ \A q \in Commands : ~calm'[q]
  BY DEF EditBundle, RemoveByHand, DisturbAll
<1>2. CASE EditBundle(r)
  <2>1. /\ \A q \in Commands : cmd[q].at = "idle"
        /\ \A s \in Runs : writer[s].at \notin {"written", "stamped"}
    BY <1>2 DEF EditBundle, AtRest
  <2>2. PICK verdict \in Verdicts :
           bundle' = [bundle EXCEPT ![r] = [version |-> bundle[r].version + 1, verdict |-> verdict]]
    BY <1>2 DEF EditBundle
  <2>3. /\ bundle'[r] = [version |-> bundle[r].version + 1, verdict |-> verdict]
        /\ \A s \in Runs : s # r => bundle'[s] = bundle[s]
    BY <2>2 DEF StoreInv, StoreTyped
  <2>4. Truthful'
    <3> SUFFICES ASSUME NEW s \in Runs, Known(s)
                 PROVE  /\ row[s].stamp \in {0, row[s].of}
                        /\ OnDisk(s)' => row[s].of <= bundle'[s].version
                        /\ OnDisk(s)' /\ row[s].of = bundle'[s].version =>
                             row[s].verdict = bundle'[s].verdict
      BY <1>1, <2>1 DEF Truthful, Known, OnDisk
    <3>1. /\ row[s].stamp \in {0, row[s].of}
          /\ OnDisk(s) => row[s].of <= bundle[s].version
          /\ OnDisk(s) /\ row[s].of = bundle[s].version => row[s].verdict = bundle[s].verdict
          /\ row[s].of \in Nat
      BY DEF Unedited, Truthful, Known, StoreInv, StoreTyped, Rows
    <3>2. CASE s # r
      BY <2>3, <3>1, <3>2 DEF OnDisk
    <3>3. CASE s = r
      <4>1. bundle[r].version \in Nat
        BY <1>1 DEF StoreInv, StoreTyped, OnDisk, Content
      <4>2. bundle'[s].version = bundle[r].version + 1
        BY <2>3, <3>3
      <4> QED BY <1>1, <3>1, <3>3, <4>1, <4>2
    <3> QED BY <3>2, <3>3
  <2>5. \A q \in Commands : Informed(cmd[q])'
    BY <1>1, <2>1 DEF Informed, Holds, Prunes
  <2> QED BY <1>1, <2>4, <2>5 DEF Unedited
<1>3. CASE RemoveByHand(r)
  <2>1. bundle' = [bundle EXCEPT ![r] = None]
    BY <1>3 DEF RemoveByHand
  <2>2. /\ Truthful'
        /\ \A s \in Runs : Stale(s)' => Stale(s)
        /\ \A s \in Runs : bundle'[s] \in {bundle[s], None}
    BY <1>1, <2>1, RemovalUnedited
  <2>3. \A q \in Commands : Informed(cmd[q])'
    BY <1>1, <2>2, EveryoneInformed
  <2> QED BY <1>1, <2>2, <2>3 DEF Unedited
<1> QED BY <1>2, <1>3

LEMMA UneditedStutter ==
    ASSUME Unedited, UNCHANGED vars
    PROVE  Unedited'
BY DEF vars, Unedited, Truthful, Informed, Steady, StillToRead, StillToForget, Holds, Prunes,
       Stale, Readable, UpToDate, OnDisk, Known

LEMMA UneditedNext ==
    ASSUME ~EditsAnytime
    PROVE  StoreInv /\ Unedited /\ [Next]_vars => Unedited'
<1> SUFFICES ASSUME StoreInv, Unedited, [Next]_vars PROVE Unedited'
  OBVIOUS
<1>1. ASSUME NEW r \in Runs, Writer(r) PROVE Unedited'
  BY <1>1, WriterUnedited
<1>2. ASSUME NEW r \in Runs, EditBundle(r) \/ RemoveByHand(r) PROVE Unedited'
  BY <1>2, OperatorUnedited
<1>3. ASSUME NEW p \in Commands, Command(p) PROVE Unedited'
  BY <1>3, QuietStepsUnedited, RowStepsUnedited, SelectUnedited, RemoveUnedited DEF Command
<1> QED BY <1>1, <1>2, <1>3, UneditedStutter DEF Next

LEMMA UneditedInvariant ==
    ASSUME ~EditsAnytime
    PROVE  Spec => [](StoreInv /\ Unedited)
<1>1. Init => StoreInv /\ Unedited
  BY StoreInvInit, UneditedInit
<1>2. StoreInv /\ Unedited /\ [Next]_vars => (StoreInv /\ Unedited)'
  BY StoreInvNext, UneditedNext
<1> QED BY <1>1, <1>2, PTL DEF Spec

\* ReconciledIndexMatchesDisk: unless a bundle is edited under a command, a
\* reconciliation nobody interferes with ends with a row, built from the present
\* version, for every readable bundle and with none for a run that is gone.
THEOREM ReconciliationIsComplete ==
    ASSUME ~EditsAnytime
    PROVE  Spec => []ReconciledIndexMatchesDisk
<1>1. ASSUME StoreInv, Unedited PROVE ReconciledIndexMatchesDisk
  <2>1. TypeOK
    BY <1>1 DEF StoreInv, StoreTyped, TypeOK, WriterStates, CommandStates, OnDisk, Known
  <2>2. ASSUME NEW p \in Commands, cmd[p].at = "reconciled", calm[p], NEW r \in Runs
        PROVE  /\ ~OnDisk(r) => ~Known(r)
               /\ OnDisk(r) /\ bundle[r].verdict # "unreadable" =>
                     Known(r) /\ row[r].of = bundle[r].version
    <3>1. Steady(cmd[p]) /\ StillToRead(cmd[p]) = {} /\ StillToForget(cmd[p]) = {}
      BY <1>1, <2>2 DEF Unedited, Steady, StillToRead, StillToForget
    <3> QED BY <2>2, <3>1 DEF Steady, Readable, UpToDate
  <2> QED BY <2>1, <2>2 DEF ReconciledIndexMatchesDisk
<1>2. StoreInv /\ Unedited => ReconciledIndexMatchesDisk
  BY <1>1
<1> QED BY <1>2, UneditedInvariant, PTL

\* EvidenceIsKept: unless a bundle is edited under a command, no row goes while
\* its bundle is there, and only the operator's own hand takes an invalid result.
THEOREM EvidenceIsAlwaysKept ==
    ASSUME ~EditsAnytime
    PROVE  Spec => EvidenceIsKept
<1> DEFINE Spared == \A r \in Runs :
              /\ Known(r) /\ row'[r] = None => ~OnDisk(r)
              /\ OnDisk(r) /\ bundle[r].verdict = "invalid" /\ bundle'[r] = None
                   => operator'.removals > operator.removals
<1>1. ASSUME StoreInv, Unedited, [Next]_vars PROVE [Spared]_vars
  <2>1. ASSUME NEW r \in Runs, Writer(r) PROVE Spared
    <3>1. /\ \A s \in Runs : s # r => bundle'[s] = bundle[s] /\ row'[s] = row[s]
          /\ row'[r] = row[r] \/ row'[r] \in Rows
          /\ bundle'[r] = bundle[r] \/ bundle'[r] \in Content
      BY <1>1, <2>1, WriterSteps
    <3> QED BY <3>1, NoneIsNothing DEF Known, OnDisk
  <2>2. ASSUME NEW r \in Runs, EditBundle(r) PROVE Spared
    <3>1. row' = row /\ OnDisk(r) /\ \E verdict \in Verdicts :
            bundle' = [bundle EXCEPT ![r] = [version |-> bundle[r].version + 1, verdict |-> verdict]]
      BY <2>2 DEF EditBundle
    <3>2. bundle[r] \in Content /\ DOMAIN bundle = Runs
      BY <1>1, <3>1 DEF StoreInv, StoreTyped, OnDisk
    <3>3. \A verdict \in Verdicts :
            [version |-> bundle[r].version + 1, verdict |-> verdict] \in Content
      BY <3>2 DEF Content
    <3>4. \A s \in Runs : bundle'[s] = bundle[s] \/ bundle'[s] \in Content
      BY <3>1, <3>2, <3>3
    <3> QED BY <3>1, <3>4, NoneIsNothing DEF Known, OnDisk
  <2>3. ASSUME NEW r \in Runs, RemoveByHand(r) PROVE Spared
    <3>1. row' = row /\ operator'.removals > operator.removals
      BY <1>1, <2>3 DEF RemoveByHand, StoreInv, StoreTyped
    <3> QED BY <3>1 DEF Known
  <2>4. ASSUME NEW p \in Commands, RecordRow(p) \/ Forget(p) \/ ForgetPruned(p) PROVE Spared
    <3>1. bundle' = bundle
      BY <2>4 DEF RecordRow, Forget, ForgetPruned
    <3> QED BY <1>1, <2>4, <3>1, RowSteps DEF OnDisk
  <2>5. ASSUME NEW p \in Commands, RemoveDirectory(p) PROVE Spared
    <3>1. row' = row
      BY <2>5 DEF RemoveDirectory
    <3> QED BY <1>1, <2>5, <3>1, RemoveUnedited DEF Known
  <2>6. ASSUME NEW p \in Commands, Command(p),
               ~RecordRow(p), ~Forget(p), ~ForgetPruned(p), ~RemoveDirectory(p)
        PROVE  Spared
    <3>1. row' = row /\ bundle' = bundle
      BY <2>6 DEF Command, files, Begin, ScanEnds, ReadBundle, StampRow, ScanEntry, CheckRow,
                  ListKnown, Recheck, Reconciled, SelectRuns, Finish, Abandon
    <3> QED BY <3>1 DEF Known, OnDisk
  <2> HIDE DEF Spared
  <2> QED BY <1>1, <2>1, <2>2, <2>3, <2>4, <2>5, <2>6 DEF Next
<1>2. StoreInv /\ Unedited /\ [Next]_vars => [Spared]_vars
  BY <1>1
<1>3. Spec => [][Spared]_vars
  BY <1>2, UneditedInvariant, PTL DEF Spec
<1> QED BY <1>3 DEF EvidenceIsKept
=============================================================================
