---------------------------- MODULE ProxyProofs -----------------------------
(***************************************************************************)
(* Theorems about `proxy apply` and `proxy rollback`, for either server,   *)
(* whatever fails and wherever the process dies.                           *)
(*                                                                         *)
(* The invariant follows the running command: what its step says of the    *)
(* file at the target path and of the receipt even when something has gone *)
(* wrong before (Holding), and what must be undone, and still can be, as   *)
(* long as nothing has (Undoable).                                         *)
(***************************************************************************)
EXTENDS Proxy, TLAPS

-----------------------------------------------------------------------------
(* The invariant                                                           *)

\* A command has a server of its own.
OwnServer == ~At("idle") => cmd.server \in Server

\* Whatever went wrong before: the operator's file is nowhere a step of the
\* command will write over or remove, unless a receipt says the file is ours.
Holding ==
    /\ At("write") => Target = None
    /\ At("restore") => Target \in {None, "partial"}
    /\ At("receipt") => Target = "ours"
    /\ At("remove") /\ cmd.then = "idle" => Target = "ours"
    /\ At("putback") /\ cmd.then = "idle" => Target \in {None, "ours"}
    /\ At("validate") \/ At("forget") => receipt = Whole
    /\ (At("remove") \/ At("putback")) /\ cmd.then = "forget" => receipt = Whole

\* What FilesMatchTheReceipt says of one server.
Settled(s) ==
    /\ target[s] # "partial"
    /\ target[s] = "ours" <=> Recorded(s)
    /\ backup[s] # None <=> Recorded(s) /\ receipt.displaced
    /\ included[s] # None => target[s] \in {"ours", "theirs"}

\* What a command has displaced lies in the backup until it is put back.
Displaced ==
    /\ backup[cmd.server] = IF cmd.displaced /\ ~At("forget") THEN "theirs" ELSE None
    /\ included[cmd.server] # None => cmd.displaced

\* Files and receipt while a command is in the middle of its work.
Undoable ==
    /\ \A s \in Server : s # cmd.server => Settled(s)
    /\ Displaced
    /\ At("write") \/ At("restore") \/ At("receipt") => receipt = None
    /\ At("remove") => Target = "ours"
    /\ At("putback") => Target = None
    /\ (At("remove") \/ At("putback")) /\ cmd.then = "idle" => receipt = None
    /\ At("validate") => Target = "ours"
    /\ At("forget") => Target = IF cmd.displaced THEN "theirs" ELSE None

\* Nothing has gone wrong, so everything is settled or can be undone.
Sound ==
    ~trouble =>
        /\ \A s \in Server : backup[s] \in {None, "theirs"}
        /\ At("idle") => \A s \in Server : Settled(s)
        /\ At("displace") => /\ \A s \in Server : Settled(s)
                             /\ receipt = None /\ ~cmd.displaced
        /\ ~At("idle") /\ ~At("displace") => Undoable

Inv == TypeOK /\ OwnServer /\ Holding /\ Sound

-----------------------------------------------------------------------------
(* Types                                                                   *)

\* A receipt is there and parses, or it names no server.
LEMMA ReceiptCases ==
    ASSUME receipt \in Receipt
    PROVE  \/ receipt \in {None, Unreadable} /\ ~(receipt # None /\ receipt.whole)
           \/ /\ receipt # None /\ receipt.whole
              /\ receipt.server \in Server /\ receipt.displaced \in BOOLEAN
              /\ receipt = [whole |-> TRUE, server |-> receipt.server,
                            displaced |-> receipt.displaced]
  <1>1. CASE receipt = None
    BY <1>1
  <1>2. CASE receipt = Unreadable
    BY <1>2 DEF Unreadable
  <1>3. CASE receipt \in [whole : {TRUE}, server : Server, displaced : BOOLEAN]
    <2>1. receipt # None
      BY <1>3, NoneAssumption
    <2> QED BY <1>3, <2>1
  <1> QED BY <1>1, <1>2, <1>3 DEF Receipt

\* The receipt of a command says which file it installed and displaced.
LEMMA WholeReceipt ==
    ASSUME cmd \in Command, cmd.server \in Server
    PROVE  /\ Whole \in Receipt /\ Whole # None
           /\ Whole.whole /\ Whole.server = cmd.server
           /\ Whole.displaced = cmd.displaced
  <1>1. Whole \in [whole : {TRUE}, server : Server, displaced : BOOLEAN]
    BY DEF Whole, Command
  <1>2. Whole # None
    BY <1>1, NoneAssumption
  <1> QED BY <1>1, <1>2 DEF Whole, Receipt

\* What a command remembers as it moves on.
LEMMA ToFields ==
    ASSUME cmd \in Command, NEW step \in Step, To(step)
    PROVE  /\ cmd' \in Command
           /\ cmd'.at = step
           /\ step # "idle" => /\ cmd'.server = cmd.server
                              /\ cmd'.displaced = cmd.displaced
                              /\ cmd'.then = cmd.then
  <1>1. CASE step = "idle"
    BY <1>1 DEF To, Idle, Command, Step
  <1>2. CASE step # "idle"
    BY <1>2 DEF To, Command, Step
  <1> QED BY <1>1, <1>2

\* A file is written, moved or removed at the command's own paths.
LEMMA SetFile ==
    ASSUME NEW d \in [Server -> File], NEW s \in Server, NEW f \in File
    PROVE  /\ [d EXCEPT ![s] = f] \in [Server -> File]
           /\ [d EXCEPT ![s] = f][s] = f
           /\ \A r \in Server : r # s => [d EXCEPT ![s] = f][r] = d[r]
  OBVIOUS

-----------------------------------------------------------------------------
(* Every step preserves the invariant                                      *)

\* ApplyBegins: there is no receipt, so nothing is installed or displaced.
LEMMA ApplyBeginsKeeps ==
    ASSUME Inv, NEW s \in Server, ApplyBegins(s)
    PROVE  Inv'
  <1>1. /\ cmd' = [at |-> "displace", server |-> s, displaced |-> FALSE, then |-> "idle"]
        /\ At("idle") /\ receipt = None
        /\ UNCHANGED <<host, target, backup, receipt, included, trouble>>
    BY DEF ApplyBegins, Idle
  <1>2. TypeOK' /\ OwnServer'
    BY <1>1 DEF Inv, TypeOK, OwnServer, At, Command, Step
  <1>3. Holding'
    BY <1>1 DEF Holding, At
  <1>4. Sound'
    BY <1>1 DEF Inv, Sound, Settled, Recorded, At
  <1> QED BY <1>2, <1>3, <1>4 DEF Inv

\* Displace: what is moved aside is the operator's, and the backup was free.
LEMMA DisplaceKeeps ==
    ASSUME Inv, Displace
    PROVE  Inv'
  <1> USE NoneAssumption
  <1>0. /\ cmd.at = "displace" /\ cmd.server \in Server /\ cmd \in Command
        /\ target \in [Server -> File] /\ backup \in [Server -> File]
        /\ UNCHANGED <<host, receipt, included, trouble>>
    BY DEF Displace, Inv, TypeOK, OwnServer, At
  <1>1. CASE Target = None /\ To("write") /\ UNCHANGED <<target, backup>>
    <2>1. /\ cmd' \in Command /\ cmd'.at = "write" /\ cmd'.server = cmd.server
          /\ cmd'.displaced = cmd.displaced
      BY <1>0, <1>1, ToFields DEF Step
    <2>2. TypeOK' /\ OwnServer'
      BY <1>0, <1>1, <2>1 DEF Inv, TypeOK, OwnServer
    <2>3. Holding'
      BY <1>0, <1>1, <2>1 DEF Holding, At, Target
    <2>4. Sound'
      BY <1>0, <1>1, <2>1 DEF Inv, Sound, Undoable, Displaced, Settled, Recorded, At, Target
    <2> QED BY <2>2, <2>3, <2>4 DEF Inv
  <1>2. CASE Target # None /\ Backup = None /\ MoveAside
    <2>1. /\ cmd' \in Command /\ cmd'.at = "write" /\ cmd'.server = cmd.server
          /\ cmd'.displaced
      BY <1>0, <1>2 DEF MoveAside, Command, Step
    <2>2. /\ target' = [target EXCEPT ![cmd.server] = None]
          /\ backup' = [backup EXCEPT ![cmd.server] = target[cmd.server]]
      BY <1>2 DEF MoveAside, SetTarget, SetBackup, Target
    <2>3. TypeOK' /\ OwnServer'
      BY <1>0, <2>1, <2>2, SetFile DEF Inv, TypeOK, OwnServer, File
    <2>4. Holding'
      BY <1>0, <2>1, <2>2 DEF Holding, At, Target
    <2>5. Sound'
      BY <1>0, <1>2, <2>1, <2>2 DEF Inv, Sound, Undoable, Displaced, Settled, Recorded, At, Target, File
    <2> QED BY <2>3, <2>4, <2>5 DEF Inv
  <1>3. CASE Target # None /\ To("idle") /\ UNCHANGED <<target, backup>>
    <2>1. cmd' \in Command /\ cmd'.at = "idle"
      BY <1>0, <1>3, ToFields DEF Step
    <2>2. TypeOK' /\ OwnServer'
      BY <1>0, <1>3, <2>1 DEF Inv, TypeOK, OwnServer, At
    <2>3. Holding'
      BY <2>1 DEF Holding, At
    <2>4. Sound'
      BY <1>0, <1>3, <2>1 DEF Inv, Sound, Settled, Recorded, At
    <2> QED BY <2>2, <2>3, <2>4 DEF Inv
  <1> QED BY <1>1, <1>2, <1>3 DEF Displace

\* WriteConfig: create_new finds the path free.
LEMMA WriteConfigKeeps ==
    ASSUME Inv, WriteConfig
    PROVE  Inv'
  <1> USE NoneAssumption
  <1>0. /\ cmd.at = "write" /\ cmd.server \in Server /\ cmd \in Command
        /\ target \in [Server -> File] /\ backup \in [Server -> File]
        /\ Target = None
        /\ UNCHANGED <<host, backup, receipt, included, trouble>>
    BY DEF WriteConfig, Inv, TypeOK, OwnServer, Holding, At
  <1>1. /\ cmd' \in Command /\ cmd'.server = cmd.server
        /\ cmd'.displaced = cmd.displaced
        /\ \/ cmd'.at = "receipt" /\ target' = [target EXCEPT ![cmd.server] = "ours"]
           \/ /\ cmd'.at = "restore"
              /\ target' = target \/ target' = [target EXCEPT ![cmd.server] = "partial"]
    BY <1>0, ToFields DEF WriteConfig, SetTarget, Step
  <1>2. TypeOK' /\ OwnServer'
    BY <1>0, <1>1, SetFile DEF Inv, TypeOK, OwnServer, File
  <1>3. Holding'
    BY <1>0, <1>1 DEF Holding, At, Target
  <1>4. Sound'
    BY <1>0, <1>1 DEF Inv, Sound, Undoable, Displaced, Settled, Recorded, At, Target
  <1> QED BY <1>2, <1>3, <1>4 DEF Inv

\* restore(): a rename at the command's own path, or nothing at all.
LEMMA PutBackMoves ==
    ASSUME TypeOK, cmd.server \in Server, PutBack
    PROVE  /\ target' \in [Server -> File] /\ backup' \in [Server -> File]
           /\ trouble' \in BOOLEAN
           /\ \A s \in Server : s # cmd.server => target'[s] = target[s] /\ backup'[s] = backup[s]
           /\ \/ /\ cmd.displaced /\ Backup # None /\ trouble' = trouble
                 /\ target'[cmd.server] = Backup /\ backup'[cmd.server] = None
              \/ /\ target' = target /\ backup' = backup
                 /\ trouble' = (trouble \/ cmd.displaced)
  <1>1. CASE /\ cmd.displaced /\ Backup # None
             /\ SetTarget(Backup) /\ SetBackup(None) /\ trouble' = trouble
    <2>1. Backup \in File /\ None \in File
      BY DEF TypeOK, Backup, File
    <2>2. /\ target' = [target EXCEPT ![cmd.server] = Backup]
          /\ backup' = [backup EXCEPT ![cmd.server] = None]
      BY <1>1 DEF SetTarget, SetBackup
    <2> QED BY <1>1, <2>1, <2>2, SetFile DEF TypeOK
  <1>2. CASE UNCHANGED <<target, backup>> /\ trouble' = (trouble \/ cmd.displaced)
    BY <1>2 DEF TypeOK, Command
  <1> QED BY <1>1, <1>2 DEF PutBack

\* Restore: the rename replaces what the failed write left; where nothing was
\* displaced and something is left, the state is not to be trusted any more.
LEMMA RestoreKeeps ==
    ASSUME Inv, Restore
    PROVE  Inv'
  <1> USE NoneAssumption
  <1>0. /\ cmd.at = "restore" /\ cmd.server \in Server /\ cmd \in Command /\ TypeOK
        /\ UNCHANGED <<host, receipt, included>>
    BY DEF Restore, Inv, TypeOK, OwnServer, At
  <1>1. cmd' \in Command /\ cmd'.at = "idle"
    BY <1>0, ToFields DEF Restore, Step
  <1>2. Holding'
    BY <1>1 DEF Holding, At
  <1>3. CASE PutBack /\ target'[cmd.server] # "partial"
    <2>1. TypeOK' /\ OwnServer'
      BY <1>0, <1>1, <1>3, PutBackMoves DEF TypeOK, OwnServer, At
    <2>2. ASSUME ~trouble'
          PROVE  (\A s \in Server : backup[s] \in {None, "theirs"})' /\ \A s \in Server : Settled(s)'
      <3>1. /\ receipt = None /\ ~trouble
            /\ \A s \in Server : s # cmd.server => Settled(s)
            /\ \A s \in Server : backup[s] \in {None, "theirs"}
            /\ backup[cmd.server] = IF cmd.displaced THEN "theirs" ELSE None
            /\ included[cmd.server] # None => cmd.displaced
            /\ target[cmd.server] \in {None, "partial"}
        BY <1>0, <1>3, <2>2, PutBackMoves
           DEF Inv, Sound, Holding, Undoable, Displaced, At, Target
      <3> QED BY <1>0, <1>3, <2>2, <3>1, PutBackMoves DEF Settled, Recorded, Backup
    <2>3. Sound'
      BY <1>1, <2>2 DEF Sound, At
    <2> QED BY <1>2, <2>1, <2>3 DEF Inv
  <1>4. CASE Target = "partial" /\ UNCHANGED <<target, backup>> /\ trouble' = TRUE
    <2>1. TypeOK' /\ OwnServer'
      BY <1>0, <1>1, <1>4 DEF TypeOK, OwnServer, At
    <2>2. Sound'
      BY <1>4 DEF Sound
    <2> QED BY <1>2, <2>1, <2>2 DEF Inv
  <1> QED BY <1>3, <1>4 DEF Restore

\* WriteReceipt: what it says is what was done, or everything is undone.
LEMMA WriteReceiptKeeps ==
    ASSUME Inv, WriteReceipt
    PROVE  Inv'
  <1> USE NoneAssumption
  <1>0. /\ cmd.at = "receipt" /\ cmd.server \in Server /\ cmd \in Command
        /\ Target = "ours" /\ trouble \in BOOLEAN
        /\ UNCHANGED <<host, target, backup, included>>
    BY DEF WriteReceipt, Inv, TypeOK, OwnServer, Holding, At
  <1>1. CASE receipt' = Whole /\ To("validate") /\ UNCHANGED trouble
    <2>1. /\ cmd' \in Command /\ cmd'.at = "validate" /\ cmd'.server = cmd.server
          /\ cmd'.displaced = cmd.displaced
      BY <1>0, <1>1, ToFields DEF Step
    <2>2. /\ receipt'.whole /\ receipt'.server = cmd.server /\ receipt'.displaced = cmd.displaced
          /\ receipt' # None /\ receipt' \in Receipt
      BY <1>0, <1>1, WholeReceipt
    <2>3. TypeOK' /\ OwnServer'
      BY <1>0, <1>1, <2>1, <2>2 DEF Inv, TypeOK, OwnServer
    <2>4. Holding'
      BY <1>1, <2>1 DEF Holding, At, Whole
    <2>5. Sound'
      BY <1>0, <1>1, <2>1, <2>2 DEF Inv, Sound, Undoable, Displaced, Settled, Recorded, At, Target
    <2> QED BY <2>3, <2>4, <2>5 DEF Inv
  <1>2. CASE /\ receipt' \in {receipt, Unreadable}
             /\ cmd' = [cmd EXCEPT !.at = "remove", !.then = "idle"]
             /\ trouble' = (trouble \/ receipt' # None)
    <2>1. /\ cmd' \in Command /\ cmd'.at = "remove" /\ cmd'.server = cmd.server
          /\ cmd'.displaced = cmd.displaced /\ cmd'.then = "idle"
      BY <1>0, <1>2 DEF Command, Step
    <2>2. TypeOK' /\ OwnServer'
      BY <1>0, <1>2, <2>1 DEF Inv, TypeOK, OwnServer, Receipt
    <2>3. Holding'
      BY <1>0, <1>2, <2>1 DEF Holding, At, Target
    <2>4. Sound'
      BY <1>0, <1>2, <2>1 DEF Inv, Sound, Undoable, Displaced, Settled, Recorded, At, Target
    <2> QED BY <2>2, <2>3, <2>4 DEF Inv
  <1> QED BY <1>1, <1>2 DEF WriteReceipt

\* Validate: a rejection begins the undo that leads to forgetting the receipt.
LEMMA ValidateKeeps ==
    ASSUME Inv, Validate
    PROVE  Inv'
  <1> USE NoneAssumption
  <1>0. /\ cmd.at = "validate" /\ cmd.server \in Server /\ cmd \in Command
        /\ receipt = Whole
        /\ UNCHANGED <<host, target, backup, receipt, included, trouble>>
    BY DEF Validate, Inv, TypeOK, OwnServer, Holding, At
  <1>1. receipt # None /\ receipt.whole /\ receipt.server = cmd.server /\ receipt.displaced = cmd.displaced
    BY <1>0, WholeReceipt
  <1>2. /\ cmd' \in Command
        /\ \/ cmd'.at = "idle"
           \/ /\ cmd'.at = "remove" /\ cmd'.then = "forget" /\ cmd'.server = cmd.server
              /\ cmd'.displaced = cmd.displaced
    <2>1. CASE To("idle")
      BY <1>0, <2>1, ToFields DEF Step
    <2>2. CASE cmd' = [cmd EXCEPT !.at = "remove", !.then = "forget"]
      BY <1>0, <2>2 DEF Command, Step
    <2> QED BY <2>1, <2>2 DEF Validate
  <1>3. TypeOK' /\ OwnServer'
    BY <1>0, <1>2 DEF Inv, TypeOK, OwnServer, At
  <1>4. Holding'
    BY <1>0, <1>2 DEF Holding, At, Whole
  <1>5. Sound'
    BY <1>0, <1>1, <1>2 DEF Inv, Sound, Undoable, Displaced, Settled, Recorded, At, Target
  <1> QED BY <1>3, <1>4, <1>5 DEF Inv

\* Rollback: the receipt it acts on is the one it will forget.
LEMMA RollbackKeeps ==
    ASSUME Inv, RollbackBegins \/ RollbackForced
    PROVE  Inv'
  <1> USE NoneAssumption
  <1>0. /\ cmd.at = "idle" /\ receipt # None /\ receipt.whole
        /\ receipt \in Receipt /\ trouble \in BOOLEAN
        /\ cmd' = [at |-> "remove", server |-> receipt.server,
                   displaced |-> receipt.displaced, then |-> "forget"]
        /\ UNCHANGED <<host, target, backup, receipt, included>>
    BY DEF RollbackBegins, RollbackForced, RollBack, Inv, TypeOK, At
  <1>1. /\ receipt.server \in Server /\ receipt.displaced \in BOOLEAN
        /\ receipt = [whole |-> TRUE, server |-> receipt.server, displaced |-> receipt.displaced]
    BY <1>0, ReceiptCases
  <1>2. /\ trouble' \in BOOLEAN
        /\ ~trouble' => ~trouble /\ included[receipt.server] = None
    <2>1. included[receipt.server] \in Line
      BY <1>1 DEF Inv, TypeOK
    <2> QED BY <1>0, <2>1 DEF RollbackBegins, RollbackForced, FindReference, Line
  <1>6. /\ cmd' \in Command /\ cmd'.at = "remove" /\ cmd'.server = receipt.server
        /\ cmd'.displaced = receipt.displaced /\ cmd'.then = "forget"
    BY <1>0, <1>1 DEF Command, Step
  <1>3. TypeOK' /\ OwnServer'
    <2>1. TypeOK'
      <3>1. trouble' \in BOOLEAN /\ cmd' \in Command
        BY <1>2, <1>6
      <3>2. UNCHANGED <<host, target, backup, receipt, included>>
        BY <1>0
      <3> QED BY <3>1, <3>2 DEF Inv, TypeOK
    <2> QED BY <1>1, <1>6, <2>1 DEF OwnServer
  <1>4. Holding'
    BY <1>0, <1>1 DEF Holding, At, Whole
  <1>5. Sound'
    <2>1. CASE trouble'
      BY <2>1 DEF Sound
    <2>2. CASE ~trouble'
      <3>1. /\ \A s \in Server : Settled(s)
            /\ \A s \in Server : backup[s] \in {None, "theirs"}
            /\ included[receipt.server] = None
        <4>1. ~trouble /\ included[receipt.server] = None
          BY <1>2, <2>2
        <4> QED BY <1>0, <4>1 DEF Inv, Sound, At
      <3>2. Target' = "ours" /\ Displaced' /\ \A s \in Server : Settled(s)'
        BY <1>0, <1>1, <1>6, <3>1 DEF Displaced, Settled, Recorded, Target, At
      <3> QED BY <1>0, <1>6, <3>1, <3>2 DEF Sound, Undoable, At
    <2> QED BY <2>1, <2>2
  <1> QED BY <1>3, <1>4, <1>5 DEF Inv

\* undo_files, its first half: what is removed is the file of the command.
LEMMA UndoRemoveKeeps ==
    ASSUME Inv, UndoRemove
    PROVE  Inv'
  <1> USE NoneAssumption
  <1>0. /\ cmd.at = "remove" /\ cmd.server \in Server /\ cmd \in Command
        /\ target \in [Server -> File] /\ trouble \in BOOLEAN
        /\ UNCHANGED <<host, backup, receipt, included>>
    BY DEF UndoRemove, Inv, TypeOK, OwnServer, At
  <1>1. /\ cmd' \in Command /\ cmd'.at = "putback" /\ cmd'.server = cmd.server
        /\ cmd'.displaced = cmd.displaced /\ cmd'.then = cmd.then
    BY <1>0, ToFields DEF UndoRemove, Step
  <1>2. \/ target' = [target EXCEPT ![cmd.server] = None] /\ trouble' = trouble
        \/ target' = target /\ trouble' = TRUE
    BY DEF UndoRemove, SetTarget
  <1>3. TypeOK' /\ OwnServer'
    <2>1. target' \in [Server -> File]
      BY <1>0, <1>2, SetFile DEF File
    <2>2. trouble' \in BOOLEAN
      BY <1>0, <1>2, Zenon
    <2> QED BY <1>0, <1>1, <2>1, <2>2 DEF Inv, TypeOK, OwnServer
  <1>4. Holding'
    BY <1>0, <1>1, <1>2 DEF Inv, Holding, At, Target, Whole
  <1>5. Sound'
    BY <1>0, <1>1, <1>2 DEF Inv, Sound, Undoable, Displaced, Settled, Recorded, At, Target
  <1> QED BY <1>3, <1>4, <1>5 DEF Inv

\* undo_files, its second half: what was displaced is back.
LEMMA UndoPutBackKeeps ==
    ASSUME Inv, UndoPutBack
    PROVE  Inv'
  <1> USE NoneAssumption
  <1>0. /\ cmd.at = "putback" /\ cmd.server \in Server /\ cmd \in Command /\ TypeOK
        /\ cmd.then \in {"idle", "forget"}
        /\ UNCHANGED <<host, receipt, included>>
    BY DEF UndoPutBack, Inv, TypeOK, OwnServer, At, Command
  <1>1. /\ cmd' \in Command /\ cmd'.at = cmd.then
        /\ cmd.then = "forget" => /\ cmd'.server = cmd.server
                                  /\ cmd'.displaced = cmd.displaced
    BY <1>0, ToFields DEF UndoPutBack, Step
  <1>2. TypeOK' /\ OwnServer'
    BY <1>0, <1>1, PutBackMoves DEF UndoPutBack, TypeOK, OwnServer, At
  <1>3. Holding'
    BY <1>0, <1>1 DEF Inv, Holding, At, Whole
  <1>4. ASSUME ~trouble'
        PROVE  /\ ~trouble
               /\ \A s \in Server : s # cmd.server => Settled(s)'
               /\ \A s \in Server : backup'[s] \in {None, "theirs"}
               /\ target'[cmd.server] = IF cmd.displaced THEN "theirs" ELSE None
               /\ backup'[cmd.server] = None
               /\ included'[cmd.server] # None => cmd.displaced
               /\ cmd.then = "idle" => receipt = None
               /\ cmd.then = "forget" => receipt = Whole
    <2>1. ~trouble
      BY <1>0, <1>4, PutBackMoves DEF UndoPutBack
    <2>2. /\ \A s \in Server : s # cmd.server => Settled(s)
          /\ \A s \in Server : backup[s] \in {None, "theirs"}
          /\ backup[cmd.server] = IF cmd.displaced THEN "theirs" ELSE None
          /\ included[cmd.server] # None => cmd.displaced
          /\ target[cmd.server] = None
          /\ cmd.then = "idle" => receipt = None
          /\ cmd.then = "forget" => receipt = Whole
      BY <1>0, <2>1 DEF Inv, Sound, Holding, Undoable, Displaced, At, Target
    <2>3. /\ target'[cmd.server] = IF cmd.displaced THEN "theirs" ELSE None
          /\ backup'[cmd.server] = None
          /\ \A s \in Server : s # cmd.server => target'[s] = target[s] /\ backup'[s] = backup[s]
      BY <1>0, <1>4, <2>2, PutBackMoves DEF UndoPutBack, Backup
    <2> QED BY <1>0, <2>1, <2>2, <2>3 DEF Settled, Recorded
  <1>5. Sound'
    <2>1. CASE cmd.then = "idle"
      BY <1>0, <1>1, <1>4, <2>1 DEF Sound, Settled, Recorded, At
    <2>2. CASE cmd.then = "forget"
      BY <1>0, <1>1, <1>4, <2>2 DEF Sound, Undoable, Displaced, At, Target
    <2> QED BY <1>0, <2>1, <2>2
  <1> QED BY <1>2, <1>3, <1>5 DEF Inv

\* Forget and Crash: the command is over.
LEMMA CommandEnds ==
    ASSUME Inv, Forget \/ Crash
    PROVE  Inv'
  <1> USE NoneAssumption
  <1>0. /\ ~At("idle") /\ cmd.server \in Server /\ cmd \in Command
        /\ receipt \in Receipt /\ trouble \in BOOLEAN
        /\ UNCHANGED <<host, target, backup, included>>
    BY DEF Forget, Crash, Inv, TypeOK, OwnServer, At
  <1>1. cmd' \in Command /\ cmd'.at = "idle"
    BY <1>0, ToFields DEF Forget, Crash, Step
  <1>2. receipt' \in Receipt /\ trouble' \in BOOLEAN
    BY <1>0 DEF Forget, Crash, Receipt
  <1>3. TypeOK' /\ OwnServer'
    BY <1>0, <1>1, <1>2 DEF Inv, TypeOK, OwnServer, At
  <1>4. Holding'
    BY <1>1 DEF Holding, At
  <1>5. Sound'
    <2>1. CASE trouble'
      BY <2>1 DEF Sound
    <2>2. CASE ~trouble'
      <3>1. cmd.at = "forget" /\ receipt' = None /\ ~trouble
        BY <2>2 DEF Forget, Crash, At
      <3>2. receipt # None /\ receipt.whole /\ receipt.server = cmd.server
        BY <1>0, <3>1, WholeReceipt DEF Inv, Holding, At
      <3> QED BY <1>0, <1>1, <3>1, <3>2
              DEF Inv, Sound, Undoable, Displaced, Settled, Recorded, At, Target
    <2> QED BY <2>1, <2>2
  <1> QED BY <1>3, <1>4, <1>5 DEF Inv

\* The operator moves between commands, and is trusted with no more than one
\* may expect: what they take away from under a command counts as trouble.
LEMMA OperatorKeeps ==
    ASSUME Inv, Operator
    PROVE  Inv'
  <1> USE NoneAssumption
  <1>0. /\ cmd.at = "idle" /\ cmd \in Command /\ UNCHANGED <<host, cmd>>
        /\ target \in [Server -> File] /\ backup \in [Server -> File]
        /\ included \in [Server -> Line] /\ receipt \in Receipt /\ trouble \in BOOLEAN
    BY DEF Operator, Inv, TypeOK, At
  <1>1. Holding' /\ OwnServer'
    BY <1>0 DEF Holding, OwnServer, At
  <1>2. ASSUME NEW s \in Server, OperatorWrites(s)
        PROVE  TypeOK' /\ Sound'
    <2>1. TypeOK'
      BY <1>0, <1>2, SetFile DEF OperatorWrites, Inv, TypeOK, File
    <2>2. Sound'
      BY <1>0, <1>2 DEF OperatorWrites, Inv, Sound, Settled, Recorded, At
    <2> QED BY <2>1, <2>2
  <1>3. ASSUME NEW s \in Server, OperatorRemoves(s) \/ OperatorMovesBackup(s)
        PROVE  TypeOK' /\ Sound'
    <2>1. TypeOK'
      <3>1. CASE OperatorRemoves(s)
        BY <1>0, <3>1, SetFile DEF OperatorRemoves, Inv, TypeOK, File
      <3>2. CASE OperatorMovesBackup(s)
        BY <1>0, <3>2, SetFile DEF OperatorMovesBackup, Inv, TypeOK, File
      <3> QED BY <1>3, <3>1, <3>2
    <2>2. Sound'
      BY <1>3 DEF OperatorRemoves, OperatorMovesBackup, Sound
    <2> QED BY <2>1, <2>2
  <1>4. ASSUME NEW s \in Server, OperatorEditsInclude(s)
        PROVE  TypeOK' /\ Sound'
    <2>1. PICK line \in Line : included' = [included EXCEPT ![s] = line]
      BY <1>4 DEF OperatorEditsInclude, Line
    <2>2. TypeOK'
      BY <1>0, <1>4, <2>1 DEF OperatorEditsInclude, Inv, TypeOK
    <2>3. ~trouble => target[s] \in {"ours", "theirs"}
      BY <1>0, <1>4 DEF OperatorEditsInclude, Inv, Sound, Settled, At, File
    <2>4. Sound'
      BY <1>0, <1>4, <2>1, <2>3
         DEF OperatorEditsInclude, Inv, Sound, Settled, Recorded, At
    <2> QED BY <2>2, <2>4
  <1>5. ASSUME OperatorClearsReceipt
        PROVE  TypeOK' /\ Sound'
    <2>1. ~Unreadable.whole
      BY DEF Unreadable
    <2> QED BY <1>0, <1>5, <2>1
            DEF OperatorClearsReceipt, Inv, TypeOK, Receipt, Sound, Settled, Recorded, At
  <1> QED BY <1>1, <1>2, <1>3, <1>4, <1>5 DEF Operator, Inv

-----------------------------------------------------------------------------
(* The theorems                                                            *)

LEMMA InvInit == Init => Inv
  <1> SUFFICES ASSUME Init PROVE Inv
    OBVIOUS
  <1> USE NoneAssumption
  <1>1. cmd.at = "idle" /\ cmd \in Command
    BY DEF Init, Idle, Command, Step
  <1>2. TypeOK
    BY <1>1 DEF Init, TypeOK, File, Line, Receipt
  <1>3. OwnServer /\ Holding
    BY <1>1 DEF OwnServer, Holding, At
  <1>4. Sound
    BY <1>1 DEF Init, Sound, Settled, Recorded, At
  <1> QED BY <1>2, <1>3, <1>4 DEF Inv

LEMMA InvStep == Inv /\ [Next]_vars => Inv'
  <1>1. ASSUME Inv, Program PROVE Inv'
    BY <1>1, ApplyBeginsKeeps, DisplaceKeeps, WriteConfigKeeps, RestoreKeeps,
       WriteReceiptKeeps, ValidateKeeps, RollbackKeeps, UndoRemoveKeeps,
       UndoPutBackKeeps, CommandEnds DEF Program
  <1>2. ASSUME Inv, UNCHANGED vars PROVE Inv'
    BY <1>2 DEF vars, Inv, TypeOK, OwnServer, Holding, Sound, Undoable, Displaced,
                Settled, Recorded, At, Target, Whole
  <1> QED BY <1>1, <1>2, OperatorKeeps DEF Next

\* Every variable keeps its type, and a command acts only on a receipt that
\* parses.
THEOREM TypeCorrect == Spec => []TypeOK
  <1>1. Inv => TypeOK
    BY DEF Inv
  <1> QED BY <1>1, InvInit, InvStep, PTL DEF Spec

\* Between commands, and unless something failed on the way, the files are what
\* the receipt says (proxy.rs, apply and rollback).
THEOREM FilesAlwaysMatchTheReceipt == Spec => []FilesMatchTheReceipt
  <1>1. Inv => FilesMatchTheReceipt
    <2> SUFFICES ASSUME Inv PROVE FilesMatchTheReceipt
      OBVIOUS
    <2> QED BY DEF Inv, FilesMatchTheReceipt, Sound, Settled
  <1> QED BY <1>1, InvInit, InvStep, PTL DEF Spec

-----------------------------------------------------------------------------
(* The operator's files                                                    *)

\* What is put over the target does not go over a file of the operator's.
LEMMA PutBackLosesNothing ==
    ASSUME TypeOK, cmd.server \in Server, PutBack, Target # "theirs"
    PROVE  \A s \in Server : InHand(s)' >= InHand(s)
  <1> SUFFICES ASSUME NEW s \in Server PROVE InHand(s)' >= InHand(s)
    OBVIOUS
  <1>1. CASE s # cmd.server
    BY <1>1, PutBackMoves DEF InHand
  <1>2. CASE s = cmd.server
    BY <1>2, PutBackMoves, NoneAssumption DEF InHand, Target, Backup
  <1> QED BY <1>1, <1>2

\* A step of a command that has not been told a stale receipt.
LEMMA NoStepLosesAFile ==
    ASSUME Inv, Program, ~Stale
    PROVE  \A s \in Server : InHand(s)' >= InHand(s)
  <1> USE NoneAssumption
  <1> SUFFICES ASSUME NEW s \in Server PROVE InHand(s)' >= InHand(s)
    OBVIOUS
  <1>0. /\ TypeOK /\ target \in [Server -> File] /\ backup \in [Server -> File]
        /\ cmd.at # "idle" => cmd.server \in Server
    BY DEF Inv, TypeOK, OwnServer, At
  <1>1. CASE UNCHANGED <<target, backup>>
    BY <1>1 DEF InHand
  <1>2. CASE Displace
    <2>1. CASE Backup = None /\ MoveAside
      <3>1. /\ target' = [target EXCEPT ![cmd.server] = None]
            /\ backup' = [backup EXCEPT ![cmd.server] = target[cmd.server]]
            /\ backup[cmd.server] = None /\ cmd.server \in Server
        BY <1>0, <1>2, <2>1 DEF MoveAside, SetTarget, SetBackup, Target, Backup, Displace, At
      <3> QED BY <1>0, <3>1 DEF InHand
    <2> QED BY <1>1, <1>2, <2>1 DEF Displace
  <1>3. CASE WriteConfig
    <2>1. target[cmd.server] = None /\ cmd.server \in Server /\ backup' = backup
      BY <1>0, <1>3 DEF WriteConfig, Inv, Holding, At, Target
    <2>2. \/ target' = target
          \/ \E f \in {"ours", "partial"} : target' = [target EXCEPT ![cmd.server] = f]
      BY <1>3 DEF WriteConfig, SetTarget
    <2> QED BY <1>0, <2>1, <2>2 DEF InHand
  <1>4. CASE Restore
    <2>1. Target # "theirs" /\ cmd.server \in Server
      BY <1>0, <1>4 DEF Restore, Inv, Holding, At
    <2> QED BY <1>0, <1>1, <1>4, <2>1, PutBackLosesNothing DEF Restore
  <1>5. ASSUME cmd.at \in {"remove", "putback"}
        PROVE  Target # "theirs" /\ cmd.server \in Server
    <2>1. cmd.server \in Server /\ cmd.then \in {"idle", "forget"}
      BY <1>0, <1>5 DEF TypeOK, Command
    <2>2. CASE cmd.then = "idle"
      BY <1>5, <2>1, <2>2 DEF Inv, Holding, At
    <2>3. CASE cmd.then = "forget"
      <3>1. receipt = Whole
        BY <1>5, <2>3 DEF Inv, Holding, At
      <3>2. receipt # None /\ receipt.whole /\ receipt.server = cmd.server
        BY <1>0, <2>1, <3>1, WholeReceipt DEF TypeOK
      <3> QED BY <2>1, <3>2 DEF Stale, Target
    <2> QED BY <2>1, <2>2, <2>3
  <1>6. CASE UndoRemove
    <2>1. /\ target[cmd.server] # "theirs" /\ cmd.server \in Server /\ backup' = backup
          /\ target' = target \/ target' = [target EXCEPT ![cmd.server] = None]
      BY <1>5, <1>6 DEF UndoRemove, SetTarget, Target, At
    <2> QED BY <1>0, <2>1 DEF InHand
  <1>7. CASE UndoPutBack
    BY <1>0, <1>5, <1>7, PutBackLosesNothing DEF UndoPutBack, At
  <1> QED BY <1>1, <1>2, <1>3, <1>4, <1>6, <1>7
          DEF Program, ApplyBegins, WriteReceipt, Validate, RollbackBegins, RollbackForced,
              RollBack, Forget, Crash

\* "Moved aside, never overwritten" (proxy.rs): no step of a command, and no
\* crash, costs the operator a copy of a file of theirs, unless it goes by a
\* receipt for a file the operator has since replaced.
THEOREM OperatorsFileAlwaysSurvives == Spec => OperatorsFileSurvives
  <1>1. ASSUME Inv, [Next]_vars
        PROVE  [cmd' # cmd /\ ~Stale => \A s \in Server : InHand(s)' >= InHand(s)]_vars
    BY <1>1, NoStepLosesAFile DEF Next, Operator
  <1> QED BY <1>1, InvInit, InvStep, PTL DEF Spec, OperatorsFileSurvives
=============================================================================
