------------------------------ MODULE RunStore ------------------------------
(***************************************************************************)
(* The run directories and the index over them: RunManager::persist of     *)
(* darcbench-agent/src/runner.rs, reconcile, record, forget and prune of   *)
(* src/index.rs, and the commands of src/main.rs that call them.           *)
(*                                                                         *)
(* Several processes share one state directory: agents that finish runs,   *)
(* and commands that reconcile the index and may prune.  A statement       *)
(* against the database is atomic and so is a file operation, and nothing  *)
(* holds between two of them.  A bundle is its version and its verdict; a  *)
(* file's identity (size and mtime) is its version, and 0 when there is no *)
(* file.  Runs are numbered in the order they finished.                    *)
(***************************************************************************)
EXTENDS Integers, FiniteSets, FiniteSetsExt

CONSTANTS NRuns,
          Commands,     \* processes that reconcile, and may then prune (--confirm)
          Outcomes,     \* the verdicts a run may end with
          KeepLast,     \* --keep-last
          MaxAge,       \* --older-than-days is given: any cutoff may result
          MaxEdits,     \* bound of the model: bundles rewritten by hand
          MaxRemovals,  \* bound of the model: directories removed by hand
          EditsAnytime, \* edits may fall inside a command
          None

Runs == 1..NRuns

Verdicts == {"clean", "invalid", "unreadable"}
Content == [version : Nat \ {0}, verdict : Verdicts]
Rows == [verdict : {"clean", "invalid"}, of : Nat \ {0}, stamp : Nat]

ASSUME RunStoreAssumption ==
    /\ NRuns \in Nat
    /\ Outcomes \subseteq {"clean", "invalid"}
    /\ KeepLast \in Nat \ {0}
    /\ MaxAge \in BOOLEAN
    /\ MaxEdits \in Nat
    /\ MaxRemovals \in Nat
    /\ EditsAnytime \in BOOLEAN
    /\ None \notin Content /\ None \notin Rows
    /\ None \notin Nat

VARIABLES writer,  \* writer[r]: the agent that ran r: where it is in persist, the
                   \* verdict of the bundle it holds and the identity it took
          bundle,  \* bundle[r]: bundle.json, or None
          row,     \* row[r]: its row in the index, or None; `of` is history,
                   \* the version the row was built from
          cmd,     \* cmd[p]: where command p is, and its local variables
          operator, \* edits and removals made by hand so far, and the run the
                    \* latest --older-than-days reached up to
          calm     \* calm[p]: history, nobody else has changed anything since
                   \* p began

vars == <<writer, bundle, row, cmd, operator, calm>>

NotRunning == [at |-> "idle", disk |-> {}, todo |-> {}, run |-> None,
               read |-> None, stamp |-> 0]

Init ==
    /\ writer = [r \in Runs |-> [at |-> "running", verdict |-> None, stamp |-> 0]]
    /\ bundle = [r \in Runs |-> None]
    /\ row = [r \in Runs |-> None]
    /\ cmd = [p \in Commands |-> NotRunning]
    /\ operator = [edits |-> 0, removals |-> 0, cutoff |-> 0]
    /\ calm = [p \in Commands |-> FALSE]

OnDisk(r) == bundle[r] # None
Known(r) == row[r] # None
Identity(r) == IF OnDisk(r) THEN bundle[r].version ELSE 0

DisturbAll == calm' = [p \in Commands |-> FALSE]
DisturbOthers(p) == calm' = [q \in Commands |-> calm[q] /\ q = p]

Row(content, stamp) ==
    [verdict |-> content.verdict, of |-> content.version, stamp |-> stamp]

-----------------------------------------------------------------------------
(* persist                                                                 *)

Persisted == [at |-> "done", verdict |-> None, stamp |-> 0]

\* A run finishes once every older one has.
InOrder(r) == \A older \in 1..(r - 1) : writer[older].at # "running"

\* The rename that puts a run's bundle in place.
WriteBundle(r) ==
    /\ writer[r].at = "running"
    /\ InOrder(r)
    /\ \E verdict \in Outcomes :
         /\ bundle' = [bundle EXCEPT ![r] = [version |-> 1, verdict |-> verdict]]
         /\ writer' = [writer EXCEPT ![r].at = "written", ![r].verdict = verdict]
    /\ DisturbAll
    /\ UNCHANGED <<row, cmd, operator>>

\* record takes the identity the file has by now, then writes the row.
StampRun(r) ==
    /\ writer[r].at = "written"
    /\ writer' = [writer EXCEPT ![r].at = "stamped", ![r].stamp = Identity(r)]
    /\ UNCHANGED <<bundle, row, cmd, operator, calm>>

RecordRun(r) ==
    /\ writer[r].at = "stamped"
    /\ row' = [row EXCEPT ![r] = Row([version |-> 1, verdict |-> writer[r].verdict],
                                     writer[r].stamp)]
    /\ writer' = [writer EXCEPT ![r] = Persisted]
    /\ DisturbAll
    /\ UNCHANGED <<bundle, cmd, operator>>

\* The index write failed, or the process died before it, or before the
\* bundle was in place.
LoseRun(r) ==
    /\ writer[r].at # "done"
    /\ InOrder(r)
    /\ writer' = [writer EXCEPT ![r] = Persisted]
    /\ UNCHANGED <<bundle, row, cmd, operator, calm>>

Writer(r) == WriteBundle(r) \/ StampRun(r) \/ RecordRun(r) \/ LoseRun(r)

-----------------------------------------------------------------------------
(* The operator, with an editor and with rm -rf                            *)

AtRest == /\ \A p \in Commands : cmd[p].at = "idle"
          /\ \A r \in Runs : writer[r].at \in {"running", "done"}

EditBundle(r) ==
    /\ OnDisk(r)
    /\ operator.edits < MaxEdits
    /\ EditsAnytime \/ AtRest
    /\ \E verdict \in Verdicts :
         bundle' = [bundle EXCEPT ![r] = [version |-> @.version + 1, verdict |-> verdict]]
    /\ operator' = [operator EXCEPT !.edits = @ + 1]
    /\ DisturbAll
    /\ UNCHANGED <<writer, row, cmd>>

RemoveByHand(r) ==
    /\ OnDisk(r)
    /\ operator.removals < MaxRemovals
    /\ bundle' = [bundle EXCEPT ![r] = None]
    /\ operator' = [operator EXCEPT !.removals = @ + 1]
    /\ DisturbAll
    /\ UNCHANGED <<writer, row, cmd>>

-----------------------------------------------------------------------------
(* reconcile                                                               *)

files == <<writer, bundle, row, operator>>

Begin(p) ==
    /\ cmd[p].at = "idle"
    /\ cmd' = [cmd EXCEPT ![p] = [NotRunning EXCEPT !.at = "scan", !.todo = Runs]]
    /\ calm' = [calm EXCEPT ![p] = TRUE]
    /\ UNCHANGED files

\* read_dir, and whether the entry holds a bundle.
ScanEntry(p, r) ==
    /\ cmd[p].at = "scan"
    /\ r \in cmd[p].todo
    /\ cmd' = [cmd EXCEPT ![p].todo = @ \ {r},
                          ![p].disk = IF OnDisk(r) THEN @ \cup {r} ELSE @]
    /\ UNCHANGED <<files, calm>>

ScanEnds(p) ==
    /\ cmd[p].at = "scan"
    /\ cmd[p].todo = {}
    /\ cmd' = [cmd EXCEPT ![p].at = "refresh", ![p].todo = cmd[p].disk]
    /\ UNCHANGED <<files, calm>>

\* Mutant: known is taken for still true.
IsKnown(r) == Known(r)

IsCurrent(r) == Known(r) /\ row[r].stamp # 0 /\ row[r].stamp = Identity(r)

\* The listed bundles one after the other.
CheckRow(p) ==
    /\ cmd[p].at = "refresh"
    /\ cmd[p].todo # {}
    /\ LET r == Min(cmd[p].todo)
       IN cmd' = [cmd EXCEPT ![p].todo = @ \ {r},
                             ![p].at = IF IsCurrent(r) THEN "refresh" ELSE "read",
                             ![p].run = IF IsCurrent(r) THEN None ELSE r]
    /\ UNCHANGED <<files, calm>>

\* A bundle that is gone or does not parse is left alone.
ReadBundle(p) ==
    /\ cmd[p].at = "read"
    /\ LET content == bundle[cmd[p].run]
       IN IF content = None \/ content.verdict = "unreadable"
          THEN cmd' = [cmd EXCEPT ![p].at = "refresh", ![p].run = None]
          ELSE cmd' = [cmd EXCEPT ![p].at = "stamp", ![p].read = content]
    /\ UNCHANGED <<files, calm>>

\* file_identity, taken once the bundle has been read and parsed.
StampRow(p) ==
    /\ cmd[p].at = "stamp"
    /\ cmd' = [cmd EXCEPT ![p].at = "record", ![p].stamp = Identity(cmd[p].run)]
    /\ UNCHANGED <<files, calm>>

RecordRow(p) ==
    /\ cmd[p].at = "record"
    /\ row' = [row EXCEPT ![cmd[p].run] = Row(cmd[p].read, cmd[p].stamp)]
    /\ cmd' = [cmd EXCEPT ![p].at = "refresh", ![p].run = None,
                          ![p].read = None, ![p].stamp = 0]
    /\ DisturbOthers(p)
    /\ UNCHANGED <<writer, bundle, operator>>

\* The rows there are now, less those the scan saw a bundle for, newest first.
ListKnown(p) ==
    /\ cmd[p].at = "refresh"
    /\ cmd[p].todo = {}
    /\ cmd' = [cmd EXCEPT ![p].at = "recheck",
                          ![p].todo = {r \in Runs : Known(r)} \ cmd[p].disk,
                          ![p].disk = {}, ![p].run = None]
    /\ UNCHANGED <<files, calm>>

\* Mutant: the snapshot decides which rows go.
TrustSnapshot(p) ==
    /\ cmd[p].at = "recheck"
    /\ cmd[p].todo # {}
    /\ LET r == Max(cmd[p].todo)
       IN cmd' = [cmd EXCEPT ![p].todo = @ \ {r}, ![p].at = "forget", ![p].run = r]
    /\ UNCHANGED <<files, calm>>

\* The file system is asked again before a row goes.
Recheck(p) ==
    /\ cmd[p].at = "recheck"
    /\ cmd[p].todo # {}
    /\ LET r == Max(cmd[p].todo)
       IN cmd' = [cmd EXCEPT ![p].todo = @ \ {r},
                             ![p].at = IF OnDisk(r) THEN "recheck" ELSE "forget",
                             ![p].run = IF OnDisk(r) THEN None ELSE r]
    /\ UNCHANGED <<files, calm>>

Forget(p) ==
    /\ cmd[p].at = "forget"
    /\ row' = [row EXCEPT ![cmd[p].run] = None]
    /\ cmd' = [cmd EXCEPT ![p].at = "recheck", ![p].run = None]
    /\ DisturbOthers(p)
    /\ UNCHANGED <<writer, bundle, operator>>

Reconciled(p) ==
    /\ cmd[p].at = "recheck"
    /\ cmd[p].todo = {}
    /\ cmd' = [cmd EXCEPT ![p].at = "reconciled"]
    /\ UNCHANGED <<files, calm>>

-----------------------------------------------------------------------------
(* prune                                                                   *)

\* Mutant: the window is counted from the oldest run.
FromTheOldest(r) == Cardinality({older \in 1..(r - 1) : Known(older)}) >= KeepLast

\* r's position in the rows, newest first, is past the window.
BeyondWindow(r) == Cardinality({newer \in (r + 1)..NRuns : Known(newer)}) >= KeepLast

\* Mutant: the verdict is not looked at.
SelectAll(p) ==
    /\ cmd[p].at = "reconciled"
    /\ cmd' = [cmd EXCEPT ![p].at = "prune",
                          ![p].todo = {r \in Runs : Known(r) /\ BeyondWindow(r)}]
    /\ calm' = [calm EXCEPT ![p] = FALSE]
    /\ UNCHANGED files

\* Invalid results are retained as evidence.
SelectRuns(p) ==
    /\ cmd[p].at = "reconciled"
    /\ \E cutoff \in (IF MaxAge THEN 0..NRuns ELSE {0}) :
         /\ cmd' = [cmd EXCEPT ![p].at = "prune",
                               ![p].todo = {r \in Runs : /\ Known(r)
                                                         /\ r <= cutoff \/ BeyondWindow(r)
                                                         /\ row[r].verdict # "invalid"}]
         /\ operator' = [operator EXCEPT !.cutoff = Max({operator.cutoff, cutoff})]
    /\ calm' = [calm EXCEPT ![p] = FALSE]
    /\ UNCHANGED <<writer, bundle, row>>

\* remove_dir_all, newest first.  It may fail having removed nothing, or the
\* bundle and not everything else; either way the row stays.
RemoveDirectory(p) ==
    /\ cmd[p].at = "prune"
    /\ cmd[p].todo # {}
    /\ LET r == Max(cmd[p].todo) IN
         /\ bundle' \in {bundle, [bundle EXCEPT ![r] = None]}
         /\ \E at \in (IF bundle'[r] = None THEN {"prune_forget", "prune"} ELSE {"prune"}) :
              cmd' = [cmd EXCEPT ![p].at = at, ![p].todo = @ \ {r},
                                 ![p].run = IF at = "prune" THEN None ELSE r]
    /\ DisturbOthers(p)
    /\ UNCHANGED <<writer, row, operator>>

\* A row whose removal fails is reported and stays.
ForgetPruned(p) ==
    /\ cmd[p].at = "prune_forget"
    /\ row' \in {row, [row EXCEPT ![cmd[p].run] = None]}
    /\ cmd' = [cmd EXCEPT ![p].at = "prune", ![p].run = None]
    /\ DisturbOthers(p)
    /\ UNCHANGED <<writer, bundle, operator>>

Finish(p) ==
    /\ \/ cmd[p].at = "reconciled"
       \/ cmd[p].at = "prune" /\ cmd[p].todo = {}
    /\ cmd' = [cmd EXCEPT ![p] = NotRunning]
    /\ calm' = [calm EXCEPT ![p] = FALSE]
    /\ UNCHANGED files

\* A statement failed and the command gave up, or it was killed.
Abandon(p) ==
    /\ cmd[p].at # "idle"
    /\ cmd' = [cmd EXCEPT ![p] = NotRunning]
    /\ calm' = [calm EXCEPT ![p] = FALSE]
    /\ UNCHANGED files

Command(p) ==
    \/ Begin(p) \/ ScanEnds(p) \/ ReadBundle(p) \/ StampRow(p) \/ RecordRow(p)
    \/ (\E r \in Runs : ScanEntry(p, r)) \/ CheckRow(p)
    \/ ListKnown(p) \/ Recheck(p) \/ Forget(p) \/ Reconciled(p)
    \/ SelectRuns(p) \/ RemoveDirectory(p) \/ ForgetPruned(p)
    \/ Finish(p) \/ Abandon(p)

Next == \/ \E r \in Runs : Writer(r) \/ EditBundle(r) \/ RemoveByHand(r)
        \/ \E p \in Commands : Command(p)

Spec == Init /\ [][Next]_vars

-----------------------------------------------------------------------------
(* Properties                                                              *)

TypeOK ==
    /\ \A r \in Runs : /\ writer[r].at \in {"running", "written", "stamped", "done"}
                       /\ writer[r].verdict \in {"clean", "invalid", None}
                       /\ writer[r].stamp \in Nat
    /\ \A r \in Runs :
         /\ OnDisk(r) => bundle[r] \in Content
         /\ Known(r) => row[r] \in Rows
    /\ \A p \in Commands :
         /\ cmd[p].at \in {"idle", "scan", "refresh", "read", "stamp", "record", "recheck",
                           "forget", "reconciled", "prune", "prune_forget"}
         /\ cmd[p].disk \subseteq Runs /\ cmd[p].todo \subseteq Runs
         /\ cmd[p].run \in Runs \cup {None}
         /\ cmd[p].read # None => cmd[p].read \in Content
         /\ cmd[p].stamp \in Nat
    /\ calm \in [Commands -> BOOLEAN]

\* Whatever crashes, failed writes, edits and removals came before, a
\* reconciliation nobody interferes with leaves the index describing the
\* disk: a row built from the present version for every readable bundle, and
\* none for a run that is gone.
ReconciledIndexMatchesDisk ==
    TypeOK /\ \A p \in Commands : cmd[p].at = "reconciled" /\ calm[p] =>
        \A r \in Runs :
            /\ ~OnDisk(r) => ~Known(r)
            /\ OnDisk(r) /\ bundle[r].verdict # "unreadable" =>
                  Known(r) /\ row[r].of = bundle[r].version

\* No command takes the row of a run whose bundle is there, however the
\* finishing of a run falls into its scan, and none takes an invalid result
\* (DATA-MODEL.md: they are retained).  Prune decides from the row, so this
\* needs every row it acts on to describe its file.
EvidenceIsKept ==
    [][\A r \in Runs :
         /\ Known(r) /\ row'[r] = None => ~OnDisk(r)
         /\ OnDisk(r) /\ bundle[r].verdict = "invalid" /\ bundle'[r] = None
              => operator'.removals > operator.removals]_vars

\* Concurrent prunes and runs that finish meanwhile never leave fewer than the
\* KeepLast newest results: as long as nobody removes runs by hand, a run that
\* is not too old is gone only once that many newer ones are on disk.
PruneKeepsTheNewest ==
    operator.removals = 0 => \A r \in (operator.cutoff + 1)..NRuns : Known(r) /\ ~OnDisk(r) =>
        Cardinality({newer \in (r + 1)..NRuns : OnDisk(newer)}) >= KeepLast

\* index.rs, is_current: a row counts as current only if it was built from the
\* file that is there now.
CurrentRowDescribesItsFile ==
    \A r \in Runs : OnDisk(r) /\ IsCurrent(r) => row[r].of = bundle[r].version

\* index.rs, reconcile: a bundle this build cannot parse is left alone rather
\* than deleted.
UnreadableBundlesAreLeftAlone ==
    [][\A r \in Runs : OnDisk(r) /\ bundle[r].verdict = "unreadable" /\ bundle'[r] = None
                          => operator'.removals > operator.removals]_vars
=============================================================================
