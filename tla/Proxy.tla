------------------------------- MODULE Proxy --------------------------------
(***************************************************************************)
(* `darcbench proxy apply` and `proxy rollback` (agent/src/proxy.rs): one  *)
(* generated file beside a web server's configuration, the file it may     *)
(* displace, and the receipt that makes it reversible; two servers may be  *)
(* installed and there is one receipt.  Every file operation is a step     *)
(* that may fail, and the process may die between two.  The operator acts  *)
(* between commands: keeps a file of their own at the same path, adds and  *)
(* removes the line that includes it, tidies up.                           *)
(* `preview`, `status` and `verify` write nothing.                         *)
(***************************************************************************)
EXTENDS Naturals

CONSTANT None

Server == {"nginx", "apache"}

\* None is told from every file, server, line and receipt.
ASSUME NoneAssumption ==
    /\ None \notin Server \cup {"theirs", "ours", "partial", "absolute", "relative"}
    /\ None \notin [whole : BOOLEAN, server : Server \cup {None}, displaced : BOOLEAN]

VARIABLES host,     \* what Inventory and the file system say of the machine
          target,   \* layout.target(): None, "theirs", "ours" or half of ours
          backup,   \* the same path with BACKUP_SUFFIX
          receipt,  \* RECEIPT_FILE: None, or whether it parses and what it says
          included, \* how some configuration file names the target, if one does
          cmd,      \* the running command: its step, `backup`, and what follows undo
          trouble   \* history: a crash, a clean-up step that failed, a rollback
                    \* forced over a live include or under one that names the file
                    \* relatively, or the operator's hand in our files

vars == <<host, target, backup, receipt, included, cmd, trouble>>

Idle == [at |-> "idle", server |-> None, displaced |-> FALSE, then |-> "idle"]

Init ==
    /\ host \in [panel : BOOLEAN, installed : SUBSET Server, validator : BOOLEAN]
    /\ \E theirs \in SUBSET Server :
           target = [s \in Server |-> IF s \in theirs THEN "theirs" ELSE None]
    /\ backup = [s \in Server |-> None]
    /\ receipt = None
    /\ included = [s \in Server |-> None]
    /\ cmd = Idle
    /\ trouble = FALSE

At(step) == cmd.at = step
To(step) == cmd' = IF step = "idle" THEN Idle ELSE [cmd EXCEPT !.at = step]

\* The command's own target and backup.
Target == target[cmd.server]
Backup == backup[cmd.server]
SetTarget(f) == target' = [target EXCEPT ![cmd.server] = f]
SetBackup(f) == backup' = [backup EXCEPT ![cmd.server] = f]

-----------------------------------------------------------------------------
(* apply --confirm                                                         *)

\* preflight: a panel refuses everything, then the server's marker and its
\* configuration root must exist.
Preflight(s) == ~host.panel /\ s \in host.installed

ApplyBegins(s) ==
    /\ At("idle") /\ Preflight(s)
    /\ receipt = None
    /\ cmd' = [Idle EXCEPT !.at = "displace", !.server = s]
    /\ UNCHANGED <<host, target, backup, receipt, included, trouble>>

MoveAside ==
    /\ SetBackup(Target)
    /\ SetTarget(None)
    /\ cmd' = [cmd EXCEPT !.at = "write", !.displaced = TRUE]

\* Mutant: the file is moved aside whatever the last attempt left there.
DisplaceOverABackup ==
    /\ At("displace")
    /\ IF Target = None
       THEN To("write") /\ UNCHANGED <<target, backup>>
       ELSE MoveAside
    /\ UNCHANGED <<host, receipt, included, trouble>>

\* A file at our path is moved aside; an existing backup ends the command, and
\* so does a rename that fails.
Displace ==
    /\ At("displace")
    /\ \/ Target = None /\ To("write") /\ UNCHANGED <<target, backup>>
       \/ Target # None /\ Backup = None /\ MoveAside
       \/ Target # None /\ To("idle") /\ UNCHANGED <<target, backup>>
    /\ UNCHANGED <<host, receipt, included, trouble>>

\* write_config: create_new, write_all, sync_all.
WriteConfig ==
    /\ At("write")
    /\ \/ SetTarget("ours") /\ To("receipt")
       \/ UNCHANGED target /\ To("restore")
       \/ SetTarget("partial") /\ To("restore")
    /\ UNCHANGED <<host, backup, receipt, included, trouble>>

\* restore(): one rename, its result ignored.
PutBack ==
    \/ /\ cmd.displaced /\ Backup # None
       /\ SetTarget(Backup) /\ SetBackup(None)
       /\ trouble' = trouble
    \/ /\ UNCHANGED <<target, backup>>
       /\ trouble' = (trouble \/ cmd.displaced)

\* After a failed write nothing removes what was created: the rename replaces
\* it, and where nothing was displaced it stays.
Restore ==
    /\ At("restore")
    /\ \/ PutBack /\ target'[cmd.server] # "partial"
       \/ Target = "partial" /\ UNCHANGED <<target, backup>> /\ trouble' = TRUE
    /\ To("idle")
    /\ UNCHANGED <<host, receipt, included>>

Whole == [whole |-> TRUE, server |-> cmd.server, displaced |-> cmd.displaced]
Unreadable == [whole |-> FALSE, server |-> None, displaced |-> FALSE]

\* Mutant: the error is propagated and nothing is undone.
WriteReceiptOrFail ==
    /\ At("receipt")
    /\ \/ receipt' = Whole /\ To("validate")
       \/ UNCHANGED receipt /\ To("idle")
    /\ UNCHANGED <<host, target, backup, included, trouble>>

\* write_receipt is no atomic replacement: it may leave half a receipt.
WriteReceipt ==
    /\ At("receipt")
    /\ \/ /\ receipt' = Whole
          /\ To("validate")
          /\ UNCHANGED trouble
       \/ /\ receipt' \in {receipt, Unreadable}
          /\ cmd' = [cmd EXCEPT !.at = "remove", !.then = "idle"]
          /\ trouble' = (trouble \/ receipt' # None)
    /\ UNCHANGED <<host, target, backup, included>>

\* validate: no validator this program will execute, or one that would not run
\* or was killed, is no verdict.
Verdicts == IF host.validator THEN {"passed", "failed", "unavailable"} ELSE {"unavailable"}

\* validate_snippet: Apache is not asked about a fragment.
SnippetVerdicts == IF cmd.server = "nginx" THEN Verdicts ELSE {"unavailable"}

\* Only a rejection undoes what was written.
Validate ==
    /\ At("validate")
    /\ \E verdict \in SnippetVerdicts :
          \/ verdict # "failed" /\ To("idle")
          \/ verdict = "failed" /\ cmd' = [cmd EXCEPT !.at = "remove", !.then = "forget"]
    /\ UNCHANGED <<host, target, backup, receipt, included, trouble>>

-----------------------------------------------------------------------------
(* rollback --confirm, and the undo both share                             *)

RollBack ==
    /\ At("idle")
    /\ receipt # None /\ receipt.whole
    /\ cmd' = [at |-> "remove", server |-> receipt.server,
               displaced |-> receipt.displaced, then |-> "forget"]
    /\ UNCHANGED <<host, target, backup, receipt, included>>

\* find_reference looks for the whole path in every file beside the target and
\* below: a line that names it relative to that directory is not found.
FindReference(s) == included[s] = "absolute"

\* A receipt that is there and parses, and no file that names the target.
RollbackBegins ==
    /\ RollBack
    /\ ~FindReference(receipt.server)
    /\ trouble' = (trouble \/ included[receipt.server] = "relative")

\* --force skips the search.
RollbackForced ==
    /\ RollBack
    /\ trouble' = (trouble \/ included[receipt.server] # None)

\* undo_files: remove_file, then restore; both results ignored.
UndoRemove ==
    /\ At("remove")
    /\ \/ SetTarget(None) /\ trouble' = trouble
       \/ Target # None /\ UNCHANGED target /\ trouble' = TRUE
    /\ To("putback")
    /\ UNCHANGED <<host, backup, receipt, included>>

UndoPutBack ==
    /\ At("putback")
    /\ PutBack
    /\ To(cmd.then)
    /\ UNCHANGED <<host, receipt, included>>

\* Removing the receipt may fail; apply ignores that, rollback reports it.
Forget ==
    /\ At("forget")
    /\ \/ receipt' = None /\ trouble' = trouble
       \/ receipt' = receipt /\ trouble' = TRUE
    /\ To("idle")
    /\ UNCHANGED <<host, target, backup, included>>

\* Ctrl-C, a kill, power.
Crash ==
    /\ ~At("idle")
    /\ To("idle")
    /\ trouble' = TRUE
    /\ UNCHANGED <<host, target, backup, receipt, included>>

Program ==
    \/ \E s \in Server : ApplyBegins(s)
    \/ Displace \/ WriteConfig \/ Restore \/ WriteReceipt \/ Validate
    \/ RollbackBegins \/ RollbackForced \/ UndoRemove \/ UndoPutBack \/ Forget \/ Crash

-----------------------------------------------------------------------------
(* The operator, while no command runs                                     *)

OperatorWrites(s) ==
    /\ target[s] = None
    /\ target' = [target EXCEPT ![s] = "theirs"]
    /\ UNCHANGED <<backup, receipt, included, trouble>>

OperatorRemoves(s) ==
    /\ target[s] # None
    /\ target' = [target EXCEPT ![s] = None]
    /\ trouble' = TRUE
    /\ UNCHANGED <<backup, receipt, included>>

OperatorEditsInclude(s) ==
    /\ target[s] # None \/ included[s] # None
    /\ \E line \in {None, "absolute", "relative"} \ {included[s]} :
          included' = [included EXCEPT ![s] = line]
    /\ UNCHANGED <<target, backup, receipt, trouble>>

OperatorMovesBackup(s) ==
    /\ backup[s] # None
    /\ backup' = [backup EXCEPT ![s] = None]
    /\ trouble' = TRUE
    /\ UNCHANGED <<target, receipt, included>>

OperatorClearsReceipt ==
    /\ receipt = Unreadable
    /\ receipt' = None
    /\ UNCHANGED <<target, backup, included, trouble>>

Operator ==
    /\ At("idle")
    /\ \/ \E s \in Server : \/ OperatorWrites(s) \/ OperatorRemoves(s)
                            \/ OperatorEditsInclude(s) \/ OperatorMovesBackup(s)
       \/ OperatorClearsReceipt
    /\ UNCHANGED <<host, cmd>>

Next == Program \/ Operator

Spec == Init /\ [][Next]_vars

-----------------------------------------------------------------------------
(* Properties                                                              *)

File == {None, "theirs", "ours", "partial"}
Line == {None, "absolute", "relative"}
Receipt == {None, Unreadable} \cup [whole : {TRUE}, server : Server, displaced : BOOLEAN]
Step == {"idle", "displace", "write", "restore", "receipt", "validate", "remove",
         "putback", "forget"}
Command == [at : Step, server : Server \cup {None}, displaced : BOOLEAN,
            then : {"idle", "forget"}]

\* Every variable keeps its type; a command acts only on a receipt that said
\* whether it displaced a file (rollback's serde_json::from_slice).
TypeOK ==
    /\ host \in [panel : BOOLEAN, installed : SUBSET Server, validator : BOOLEAN]
    /\ target \in [Server -> File] /\ backup \in [Server -> File]
    /\ receipt \in Receipt
    /\ included \in [Server -> Line]
    /\ cmd \in Command
    /\ trouble \in BOOLEAN

InHand(s) == (IF target[s] = "theirs" THEN 1 ELSE 0) + (IF backup[s] = "theirs" THEN 1 ELSE 0)

\* The receipt speaks of a file the operator has since replaced by their own.
Stale == receipt # None /\ receipt.whole /\ target[receipt.server] = "theirs"

\* No step of a command, and no crash between two, costs the operator a copy
\* of a file of theirs (proxy.rs: "moved aside, never overwritten"), as long as
\* the receipt a rollback goes by is not stale.
OperatorsFileSurvives ==
    [][cmd' # cmd /\ ~Stale => \A s \in Server : InHand(s)' >= InHand(s)]_vars

Recorded(s) == receipt # None /\ receipt.whole /\ receipt.server = s

\* Between commands our file is installed exactly where a readable receipt says
\* so, so on one server at most, and a file is displaced exactly where that
\* receipt says so: a failed apply has undone what it did (proxy.rs: "a change
\* this program cannot record is a change it cannot undo"), and a rollback has
\* put back what apply moved.  And the operator's include line never names a
\* file a command took away.
FilesMatchTheReceipt ==
    TypeOK /\ (At("idle") /\ ~trouble =>
        \A s \in Server :
            /\ target[s] # "partial"
            /\ target[s] = "ours" <=> Recorded(s)
            /\ backup[s] # None <=> Recorded(s) /\ receipt.displaced
            /\ included[s] # None => target[s] \in {"ours", "theirs"})

\* proxy.rs: "DARCBench removes only files it recorded creating".  A receipt
\* outlives what it records: a crash or a failed removal between undo_files and
\* the receipt's own, or an operator who replaced the snippet.  The rollback it
\* then authorises removes whatever is at the path.
RemovesOnlyWhatItCreated ==
    [][cmd' # cmd => \A s \in Server : InHand(s)' >= InHand(s)]_vars

\* proxy.rs: "A change this program cannot record is a change it cannot undo,
\* and it will not leave one behind".  A write that fails half way, with nothing
\* displaced, leaves half a file and no receipt.
FailedApplyLeavesNothing == At("idle") => \A s \in Server : target[s] # "partial"
=============================================================================
