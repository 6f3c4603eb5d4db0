----------------------------- MODULE Containers ------------------------------
(***************************************************************************)
(* The container tier (modules/container.rs) and the four modules that use *)
(* it: database.oltp, database.cache, deployment.container,                *)
(* wordpress.site.  Two agents on one host share a daemon; nothing in the  *)
(* code keeps a command-line run and the agent's own apart.                *)
(*                                                                         *)
(* Every call is a client command with a deadline.  It is answered with    *)
(* success, with a failure, or it is killed at its deadline (Err, "cut")   *)
(* and the daemon may still do what it was asked for.  Each module is a    *)
(* program: a table of commands and of where each answer leads.  What a    *)
(* module owes to remove is a stack, popped on every way out of it.        *)
(***************************************************************************)
EXTENDS Naturals, Sequences, SequencesExt, Functions

CONSTANTS Agents,     \* processes of this program that share the daemon
          None,       \* no module is running
          Modules,    \* the container modules each agent may start
          MaxRuns,    \* bound: modules each agent starts
          MaxFaults,  \* bound: commands that fail or are killed, crashes, images removed
          Preloaded   \* images that may already be on the host

ASSUME ContainersAssumption ==
    /\ None \notin {"oltp", "cache", "deployment", "wordpress"}
    /\ Modules \in [Agents -> SUBSET {"oltp", "cache", "deployment", "wordpress"}]
    /\ MaxRuns \in [Agents -> Nat] /\ MaxFaults \in Nat

VARIABLES daemon,   \* labelled objects of the daemon, and the state of each
          local,    \* base images on the host
          gone,     \* history: images that went, since its last fetch, while an agent needed them
          late,     \* effects the daemon may still have after their client died
          run,      \* per agent: the module, its place in it, what it owes
          starts,   \* per agent: modules started, the suffix of its names
          faults,   \* faults left
          excused,  \* history: objects some command about which was not confirmed
          strays    \* history: objects a sweep could not be sure to take

vars == <<daemon, local, gone, late, run, starts, faults, excused, strays>>

-----------------------------------------------------------------------------
(* The programs.  `at` 0 aborts the module, one past the end finishes it.  *)

Abort == 0

Step(op, key, ok, failed, cut) ==
    [op |-> op, key |-> key, ok |-> ok, failed |-> failed, cut |-> cut]

\* A container of key k is made from image ImageOf[k].
ImageOf == [postgres |-> "postgres", valkey |-> "valkey", start |-> "busybox",
            health |-> "busybox", mariadb |-> "mariadb", wordpress |-> "wordpress",
            install |-> "cli", import |-> "cli", ask |-> "cli"]

Images == {ImageOf[k] : k \in DOMAIN ImageOf}
ASSUME PreloadedAssumption == Preloaded \subseteq Images

Oltp == <<
    Step("discover", "", 2, Abort, Abort),
    Step("ensure", "postgres", 3, Abort, Abort),
    Step("reap", "container", 4, 4, Abort),
    Step("launch", "postgres", 5, Abort, Abort),
    Step("exec", "build", 6, Abort, Abort),
    Step("exec", "phase", 7, 7, Abort),
    Step("exec", "disclosure", 8, 8, 8) >>

Cache == <<
    Step("discover", "", 2, Abort, Abort),
    Step("ensure", "valkey", 3, Abort, Abort),
    Step("reap", "container", 4, 4, Abort),
    Step("launch", "valkey", 5, Abort, Abort),
    Step("exec", "shape", 6, 6, Abort),
    Step("exec", "latency", 7, 7, 7),
    Step("exec", "disclosure", 8, 8, 8) >>

\* The build that failed is followed by the cached one all the same; the image
\* is written out only after the first, and read back only if it was.
Deployment == <<
    Step("discover", "", 2, Abort, Abort),
    Step("reap", "image", 3, 3, Abort),
    Step("reap", "container", 4, 4, Abort),
    Step("build", "image", 5, 9, 9),
    Step("build", "image", 6, 6, 6),
    Step("save", "image", 7, 10, 10),
    Step("rmi", "image", 8, 8, 8),
    Step("build", "image", 10, 10, 10),
    Step("build", "image", 10, 10, 10),
    Step("ensure", "busybox", 11, 15, 15),
    Step("ephemeral", "start", 12, 12, 12),
    Step("start", "health", 13, 15, 15),
    Step("poll", "health", 14, 14, 14),
    Step("drop", "health", 15, 15, 15) >>

Wordpress == <<
    Step("discover", "", 2, Abort, Abort),
    Step("reap", "container", 3, 3, Abort),
    Step("reap", "network", 4, 4, 4),
    Step("ensure", "mariadb", 5, Abort, Abort),
    Step("ensure", "wordpress", 6, Abort, Abort),
    Step("ensure", "cli", 7, Abort, Abort),
    Step("network", "network", 8, Abort, Abort),
    Step("launch", "mariadb", 9, Abort, Abort),
    Step("launch", "wordpress", 10, Abort, Abort),
    Step("ephemeral", "install", 11, Abort, Abort),
    Step("ephemeral", "import", 12, Abort, Abort),
    Step("serve", "", 13, Abort, Abort),
    Step("ephemeral", "ask", 14, 14, 14),
    Step("ephemeral", "ask", 15, 15, 15) >>

Program == [oltp |-> Oltp, cache |-> Cache, deployment |-> Deployment, wordpress |-> Wordpress]

-----------------------------------------------------------------------------
(* Names, and what the daemon holds under them                             *)

Keys == DOMAIN ImageOf \cup {"network", "image"}
Name(a, key) == <<a, starts[a], key>>
Kind(x) == IF x[3] \in {"network", "image"} THEN x[3] ELSE "container"
Labelled(kind) == {x \in DOMAIN daemon : Kind(x) = kind}

SameRun(x, y) == x[1] = y[1] /\ x[2] = y[2]

Attached == {"starting", "serving", "running"}
Live(x) == run[x[1]].mod # None /\ starts[x[1]] = x[2]

\* A network with a container running on it refuses to go.
Removable(x) ==
    Kind(x) = "network" =>
        \A y \in Labelled("container") : SameRun(x, y) => daemon[y] \notin Attached

Without(X) == Restrict(daemon, DOMAIN daemon \ {x \in X : x \in DOMAIN daemon /\ Removable(x)})
Gone == "gone"
Became(x, state) == IF state = Gone THEN Without({x})
                    ELSE [y \in DOMAIN daemon \cup {x} |-> IF y = x THEN state ELSE daemon[y]]

Idle == [mod |-> None, at |-> 0, sub |-> "begin", owed |-> <<>>, listed |-> {}]
Here(a) == Program[run[a].mod][run[a].at]
Op(a, op, sub) == /\ run[a].mod # None /\ run[a].sub = sub
                  /\ run[a].at \in DOMAIN Program[run[a].mod]
                  /\ Here(a).op = op
Mine(a) == Name(a, Here(a).key)

Goes(a, to) == run' = [run EXCEPT ![a] = [@ EXCEPT !.at = to, !.sub = "begin", !.listed = {}]]
Into(a, sub) == run' = [run EXCEPT ![a].sub = sub]
Owing(a, x, to) == run' = [run EXCEPT ![a] = [@ EXCEPT !.at = to, !.sub = "begin",
                                                       !.owed = Append(run[a].owed, x)]]

Fault == faults > 0 /\ faults' = faults - 1
Asked(x) == excused' = excused \cup {x}

\* One client command about object x.  It succeeds and x is in that state; or it
\* reports a failure, and leaves one of `halves`; or it is killed, and the daemon
\* may still do it.
Command(x, state, halves, Ok, Failed, Cut) ==
    \/ /\ Ok /\ daemon' = Became(x, state)
       /\ UNCHANGED <<late, faults, excused>>
    \/ /\ Fault /\ Failed /\ Asked(x)
       /\ daemon' \in halves
       /\ UNCHANGED late
    \/ /\ Fault /\ Cut /\ Asked(x)
       /\ late' = late \cup {<<x, state>>}
       /\ UNCHANGED daemon

-----------------------------------------------------------------------------
(* A module begins, looks for a runtime, fetches its images, sweeps        *)

\* The histories forget a module of which nothing is left.
Remembered(X) == {x \in X : \E y \in DOMAIN daemon \cup {e[1] : e \in late} : SameRun(x, y)}

Start(a, m) ==
    /\ run[a].mod = None /\ starts[a] < MaxRuns[a]
    /\ run' = [run EXCEPT ![a] = [Idle EXCEPT !.mod = m, !.at = 1]]
    /\ starts' = [starts EXCEPT ![a] = @ + 1]
    /\ excused' = Remembered(excused)
    /\ strays' = Remembered(strays)
    /\ gone' = {g \in gone : g[1] # a}
    /\ UNCHANGED <<daemon, local, late, faults>>

Discover(a) ==
    /\ Op(a, "discover", "begin")
    /\ \/ Goes(a, Here(a).ok) /\ UNCHANGED faults
       \/ Fault /\ Goes(a, Abort)
    /\ UNCHANGED <<daemon, local, gone, late, starts, excused, strays>>

Fetches(a) == /\ local' = local \cup {Here(a).key}
              /\ gone' = gone \ {<<a, Here(a).key>>}

\* Mutant: a failed pull is left to the `run` that follows.
EnsureOrHope(a) ==
    /\ Op(a, "ensure", "begin")
    /\ \/ Fetches(a) /\ UNCHANGED faults
       \/ Fault /\ UNCHANGED <<local, gone>>
    /\ Goes(a, Here(a).ok)
    /\ UNCHANGED <<daemon, late, starts, excused, strays>>

\* An inspect that fails counts as absent, and the image is pulled.  A pull that
\* is killed may still arrive.
EnsureImagePresent(a) ==
    /\ Op(a, "ensure", "begin")
    /\ \/ Fetches(a) /\ Goes(a, Here(a).ok) /\ UNCHANGED faults
       \/ /\ Fault /\ Goes(a, Here(a).failed)
          /\ Fetches(a) \/ UNCHANGED <<local, gone>>
    /\ UNCHANGED <<daemon, late, starts, excused, strays>>

\* reap, reap_images and reap_networks list what carries the label ...
Listing(a, listed) ==
    /\ Op(a, "reap", "begin")
    /\ \/ /\ IF listed = {} THEN Goes(a, Here(a).ok)
             ELSE run' = [run EXCEPT ![a] = [@ EXCEPT !.sub = "remove", !.listed = listed]]
          /\ UNCHANGED <<faults, strays>>
       \/ /\ Fault
          /\ \/ Goes(a, Here(a).failed)
             \/ Goes(a, Here(a).cut)
          /\ strays' = strays \cup Labelled(Here(a).key)
    /\ UNCHANGED <<daemon, local, gone, late, starts, excused>>

\* Mutant: only what is running is listed (`ps -q` for `ps -aq`).
ReapListsRunning(a) == Listing(a, {x \in Labelled(Here(a).key) : daemon[x] \in Attached})

ReapLists(a) == Listing(a, Labelled(Here(a).key))

\* ... and then remove that, whosever it has become.  The status of the removal
\* is not looked at; a network somebody is attached to stays.
ReapRemoves(a) ==
    /\ Op(a, "reap", "remove")
    /\ LET left == run[a].listed \cap DOMAIN daemon
       IN \/ /\ daemon' = Without(left)
             /\ Goes(a, Here(a).ok)
             /\ UNCHANGED <<late, faults, strays>>
          \/ /\ Fault /\ strays' = strays \cup left
             /\ \E some \in SUBSET left : daemon' = Without(some)
             /\ \/ Goes(a, Here(a).failed) /\ UNCHANGED late
                \/ Goes(a, Here(a).cut) /\ late' = late \cup {<<x, Gone>> : x \in left}
    /\ UNCHANGED <<local, gone, starts, excused>>

-----------------------------------------------------------------------------
(* Networks and images a module makes for itself                           *)

\* create_network: what it could not confirm is not owed.
CreateNetwork(a) ==
    /\ Op(a, "network", "begin")
    /\ Command(Mine(a), "network", {daemon, Became(Mine(a), "network")},
               Owing(a, Mine(a), Here(a).ok), Goes(a, Here(a).failed), Goes(a, Here(a).cut))
    /\ UNCHANGED <<local, gone, starts, strays>>

\* The tag is owed from the first build on, whether or not it was made.
BuildGoes(a, to) == IF Mine(a) \in Range(run[a].owed) THEN Goes(a, to) ELSE Owing(a, Mine(a), to)

BuildOrLoad(a) ==
    /\ Op(a, "build", "begin")
    /\ Command(Mine(a), "image", {daemon}, BuildGoes(a, Here(a).ok), BuildGoes(a, Here(a).failed),
               BuildGoes(a, Here(a).cut))
    /\ UNCHANGED <<local, gone, starts, strays>>

SaveImage(a) ==
    /\ Op(a, "save", "begin")
    /\ \/ Mine(a) \in DOMAIN daemon /\ Goes(a, Here(a).ok) /\ UNCHANGED faults
       \/ Mine(a) \notin DOMAIN daemon /\ Goes(a, Here(a).failed) /\ UNCHANGED faults
       \/ Fault /\ Goes(a, Here(a).failed)
    /\ UNCHANGED <<daemon, local, gone, late, starts, excused, strays>>

\* Best effort: every answer is the same answer.
Removes(x, Then) == Command(x, Gone, {daemon, Without({x})}, Then, Then, Then)

RemoveImage(a) ==
    /\ Op(a, "rmi", "begin")
    /\ Removes(Mine(a), Goes(a, Here(a).ok))
    /\ UNCHANGED <<local, gone, starts, strays>>

-----------------------------------------------------------------------------
(* Sandbox::launch                                                         *)

\* The daemon pulls what a container it makes needs, without being told to.
Pulls ==
    LET made == {x \in DOMAIN daemon' \ DOMAIN daemon : Kind(x) = "container"}
    IN  local' = local \cup {ImageOf[x[3]] : x \in made}

\* A `run` that fails may leave a container it created; one that is killed may
\* leave one that runs.  Neither is removed here.
RunContainer(a) ==
    /\ Op(a, "launch", "begin") \/ Op(a, "start", "begin")
    /\ Mine(a) \notin DOMAIN daemon
    /\ Command(Mine(a), "starting", {daemon, Became(Mine(a), "created")},
               Into(a, "port"), Goes(a, Here(a).failed), Goes(a, Here(a).cut))
    /\ Pulls
    /\ UNCHANGED <<gone, starts, strays>>

\* A late container may already hold the name.
NameIsTaken(a) ==
    /\ Op(a, "launch", "begin") \/ Op(a, "start", "begin") \/ Op(a, "ephemeral", "begin")
    /\ Mine(a) \in DOMAIN daemon
    /\ IF Here(a).op = "ephemeral" THEN Into(a, "undo") ELSE Goes(a, Here(a).failed)
    /\ UNCHANGED <<daemon, local, gone, late, starts, faults, excused, strays>>

Running(x) == x \in DOMAIN daemon /\ daemon[x] \in Attached

\* What is left when the command of a container ends.  run_args asks for no --rm,
\* "actively harmful": a service that died keeps its log, and its label, until
\* somebody removes it.  ephemeral_run_args asks for it.
ServiceLeft(x) == Became(x, "exited")
OneShotLeft(x) == Without({x})

\* From here on the module owes the container.
PortIsPublished(a) ==
    /\ Op(a, "launch", "port") \/ Op(a, "start", "port")
    /\ Running(Mine(a))
    /\ IF Here(a).op = "start" THEN Owing(a, Mine(a), Here(a).ok)
       ELSE run' = [run EXCEPT ![a] = [@ EXCEPT !.sub = "wait",
                                                !.owed = Append(run[a].owed, Mine(a))]]
    /\ UNCHANGED <<daemon, local, gone, late, starts, faults, excused, strays>>

NoPort(a) ==
    /\ Op(a, "launch", "port") \/ Op(a, "start", "port")
    /\ \/ ~Running(Mine(a)) /\ UNCHANGED faults
       \/ Fault
    /\ Into(a, "undo")
    /\ UNCHANGED <<daemon, local, gone, late, starts, excused, strays>>

\* wait_ready.  The port answers as soon as the container runs; only the probe
\* inside it says that the service does.  A container that is gone, removed by
\* somebody else's sweep, is neither ready nor exited: only the deadline ends it.
Ready(a) ==
    /\ Op(a, "launch", "wait")
    /\ Mine(a) \in DOMAIN daemon /\ daemon[Mine(a)] = "serving"
    /\ Goes(a, Here(a).ok)
    /\ UNCHANGED <<daemon, local, gone, late, starts, faults, excused, strays>>

\* Mutant: only what the container reports ends the wait.
WaitForExit(a) ==
    /\ Op(a, "launch", "wait")
    /\ Mine(a) \in DOMAIN daemon /\ daemon[Mine(a)] = "exited"
    /\ Into(a, "undo")
    /\ UNCHANGED <<daemon, local, gone, late, starts, faults, excused, strays>>

WaitFails(a) ==
    /\ Op(a, "launch", "wait")
    /\ Into(a, "undo")
    /\ UNCHANGED <<daemon, local, gone, late, starts, faults, excused, strays>>

\* The error path of a launch, and of an ephemeral command that did not succeed.
Undo(a) ==
    /\ run[a].mod # None /\ run[a].sub = "undo"
    /\ Removes(Mine(a), Goes(a, Here(a).failed))
    /\ UNCHANGED <<local, gone, starts, strays>>

-----------------------------------------------------------------------------
(* Using what was launched                                                 *)

Serves(a) == LET x == Last(run[a].owed) IN x \in DOMAIN daemon /\ daemon[x] = "serving"

\* Sandbox::exec and, for WordPress, the requests of the measurement.
Exec(a) ==
    /\ Op(a, "exec", "begin") \/ Op(a, "serve", "begin")
    /\ \/ Serves(a) /\ Goes(a, Here(a).ok) /\ UNCHANGED faults
       \/ ~Serves(a) /\ Goes(a, Here(a).failed) /\ UNCHANGED faults
       \/ Fault /\ (Goes(a, Here(a).failed) \/ Goes(a, Here(a).cut))
    /\ UNCHANGED <<daemon, local, gone, late, starts, excused, strays>>

\* time_to_serving polls by itself, and gives up by itself.
PollHealth(a) ==
    /\ Op(a, "poll", "begin")
    /\ Goes(a, Here(a).ok)
    /\ UNCHANGED <<daemon, local, gone, late, starts, faults, excused, strays>>

\* Dropping the last sandbox where its scope ends.
DropHealth(a) ==
    /\ Op(a, "drop", "begin")
    /\ Removes(Last(run[a].owed),
               run' = [run EXCEPT ![a] = [@ EXCEPT !.at = Here(a).ok, !.owed = Front(run[a].owed)]])
    /\ UNCHANGED <<local, gone, starts, strays>>

\* run_ephemeral_with: the container exists while the client waits for it, and
\* --rm takes it away when its command ends.
EphemeralStarts(a) ==
    /\ Op(a, "ephemeral", "begin")
    /\ Mine(a) \notin DOMAIN daemon
    /\ Command(Mine(a), "running", {daemon, Became(Mine(a), "created")},
               Into(a, "running"), Into(a, "undo"), Goes(a, Here(a).cut))
    /\ Pulls
    /\ UNCHANGED <<gone, starts, strays>>

\* A command killed at its deadline is an Err, and nothing is removed for it.
EphemeralEnds(a) ==
    /\ Op(a, "ephemeral", "running")
    /\ \/ /\ Running(Mine(a))
          /\ daemon' = OneShotLeft(Mine(a))
          /\ Goes(a, Here(a).ok)
          /\ UNCHANGED <<faults, excused>>
       \/ /\ ~Running(Mine(a))
          /\ Into(a, "undo")
          /\ UNCHANGED <<daemon, faults, excused>>
       \/ /\ Running(Mine(a)) /\ Fault
          /\ daemon' \in {OneShotLeft(Mine(a)), ServiceLeft(Mine(a))}
          /\ Into(a, "undo")
          /\ UNCHANGED excused
       \/ /\ Fault /\ Asked(Mine(a))
          /\ Goes(a, Here(a).cut)
          /\ UNCHANGED daemon
    /\ UNCHANGED <<local, gone, late, starts, strays>>

-----------------------------------------------------------------------------
(* Leaving, on any path                                                    *)

Over(a) == /\ run[a].mod # None /\ run[a].sub = "begin"
           /\ run[a].at \notin DOMAIN Program[run[a].mod]

\* Mutant: the network is removed while the sandboxes are still held.
UnwindFirst(a) ==
    /\ Over(a) /\ run[a].owed # <<>>
    /\ Removes(Head(run[a].owed), run' = [run EXCEPT ![a].owed = Tail(@)])
    /\ UNCHANGED <<local, gone, starts, strays>>

\* What is owed goes in the reverse of the order it came in: the web server,
\* the database, and then the network they were on.
Unwind(a) ==
    /\ Over(a) /\ run[a].owed # <<>>
    /\ Removes(Last(run[a].owed), run' = [run EXCEPT ![a].owed = Front(@)])
    /\ UNCHANGED <<local, gone, starts, strays>>

Return(a) ==
    /\ Over(a) /\ run[a].owed = <<>>
    /\ run' = [run EXCEPT ![a] = Idle]
    /\ UNCHANGED <<daemon, local, gone, late, starts, faults, excused, strays>>

\* A panic aborts the release build and SIGKILL runs no Drop.
Crash(a) ==
    /\ run[a].mod # None /\ Fault
    /\ run' = [run EXCEPT ![a] = Idle]
    /\ excused' = excused \cup {Name(a, k) : k \in Keys}
    /\ UNCHANGED <<daemon, local, gone, late, starts, strays>>

-----------------------------------------------------------------------------
(* The daemon by itself                                                    *)

ServiceComesUp(x) == daemon[x] = "starting" /\ daemon' = Became(x, "serving") /\ UNCHANGED faults

ServiceDies(x) == daemon[x] \in {"starting", "serving"} /\ Fault /\ daemon' = ServiceLeft(x)

\* A one-shot container nobody waits for any more ends, and --rm removes it.
OrphanEnds(x) ==
    /\ daemon[x] = "running"
    /\ ~(run[x[1]].sub = "running" /\ Live(x) /\ Mine(x[1]) = x)
    /\ daemon' = OneShotLeft(x)
    /\ UNCHANGED faults

ServiceMoves ==
    /\ \E x \in DOMAIN daemon : ServiceComesUp(x) \/ ServiceDies(x) \/ OrphanEnds(x)
    /\ UNCHANGED <<local, gone, late, run, starts, excused, strays>>

\* The daemon gets round to what a killed client asked for, or never does.
LateEffect ==
    /\ \E e \in late :
         /\ late' = late \ {e}
         /\ daemon' \in {daemon, Became(e[1], e[2])}
         /\ strays' = IF e[2] = Gone THEN strays ELSE strays \cup {e[1]}
    /\ Pulls
    /\ UNCHANGED <<gone, run, starts, faults, excused>>

\* From place r on, the program still makes a container from the image.
Makers == {"launch", "start", "ephemeral"}
Needs(r, image) ==
    /\ r.mod # None
    /\ \E i \in DOMAIN Program[r.mod] :
         i >= r.at /\ Program[r.mod][i].op \in Makers /\ ImageOf[Program[r.mod][i].key] = image

\* Somebody else removes an image nothing runs from: an operator, a cleanup job.
\* One that no module needs any more may as well never have been there.
ImageGoes ==
    /\ Fault
    /\ \E image \in local :
         /\ \E a \in Agents : Needs(run[a], image)
         /\ \A x \in Labelled("container") : ImageOf[x[3]] = image => daemon[x] \notin Attached
         /\ local' = local \ {image}
         /\ gone' = gone \cup {<<a, image>> : a \in {b \in Agents : Needs(run[b], image)}}
    /\ UNCHANGED <<daemon, late, run, starts, excused, strays>>

-----------------------------------------------------------------------------
Init ==
    /\ daemon = [x \in {} |-> Gone]
    /\ local \in SUBSET Preloaded
    /\ gone = {}
    /\ late = {}
    /\ run = [a \in Agents |-> Idle]
    /\ starts = [a \in Agents |-> 0]
    /\ faults = MaxFaults
    /\ excused = {}
    /\ strays = {}

Agent(a) ==
    \/ Discover(a) \/ EnsureImagePresent(a) \/ ReapLists(a) \/ ReapRemoves(a)
    \/ CreateNetwork(a) \/ BuildOrLoad(a) \/ SaveImage(a) \/ RemoveImage(a)
    \/ RunContainer(a) \/ NameIsTaken(a) \/ PortIsPublished(a) \/ NoPort(a)
    \/ Ready(a) \/ WaitFails(a) \/ Undo(a)
    \/ Exec(a) \/ PollHealth(a) \/ DropHealth(a)
    \/ EphemeralStarts(a) \/ EphemeralEnds(a) \/ Unwind(a) \/ Return(a)

\* The bounds are reached and every agent is idle.
Finished ==
    /\ \A a \in Agents : run[a].mod = None /\ starts[a] = MaxRuns[a]
    /\ UNCHANGED vars

Next ==
    \/ \E a \in Agents : Agent(a) \/ Crash(a) \/ \E m \in Modules[a] : Start(a, m)
    \/ ServiceMoves
    \/ LateEffect
    \/ ImageGoes
    \/ Finished

\* Every client command has a deadline and every poll a limit, so a module
\* always has a next step.  Nothing is assumed of the daemon.
Fairness == \A a \in Agents : WF_vars(Agent(a))
Spec == Init /\ [][Next]_vars /\ Fairness

-----------------------------------------------------------------------------
(* Properties                                                              *)

States == {"created", "starting", "serving", "running", "exited", "network", "image"}

TypeOK ==
    /\ \A x \in DOMAIN daemon : x \in Agents \X Nat \X Keys /\ daemon[x] \in States
    /\ local \subseteq Images /\ gone \subseteq Agents \X Images
    /\ \A e \in late : e[1] \in Agents \X Nat \X Keys /\ e[2] \in States \cup {Gone}
    /\ \A a \in Agents : /\ run[a].mod \in Modules[a] \cup {None}
                         /\ run[a].at \in 0 .. 16
                         /\ run[a].listed \subseteq Agents \X Nat \X Keys
    /\ \A a \in Agents : starts[a] \in 0 .. MaxRuns[a]
    /\ faults \in 0 .. MaxFaults

\* "must clean up everything it created before returning, including on error
\* paths" (core/module.rs): what a module has left behind when it is over is only
\* what some command about it was not confirmed, or a network such a container
\* holds.
Unconfirmed(x) ==
    \/ x \in excused
    \/ Kind(x) = "network" /\ \E y \in excused : SameRun(x, y)

NothingOutlivesItsModule == TypeOK /\ \A x \in DOMAIN daemon : Live(x) \/ Unconfirmed(x)

\* A sweep that worked leaves no container of the same agent's dead runs on the
\* machine that is about to be measured: container.rs `reap`, called by each
\* module before it starts anything.
Launched(a) == run[a].mod # None /\ run[a].at \in DOMAIN Program[run[a].mod]
                 /\ Here(a).op \in {"launch", "exec", "serve", "ephemeral", "start", "poll"}

OwnResidueIsSwept ==
    \A a \in Agents : Launched(a) =>
        \A x \in Labelled("container") : x[1] = a /\ x[2] < starts[a] => x \in strays

\* ensure_image_present: a module that is about to make a container fetched the
\* image itself, on the path that led here, and the image is on the host unless
\* somebody removed it since that fetch.
AboutToRun(a) == \E op \in Makers : Op(a, op, "begin")
AtHand(a, image) == image \in local \/ <<a, image>> \in gone

NoImplicitPull == \A a \in Agents : AboutToRun(a) => AtHand(a, ImageOf[Here(a).key])

\* Not so of this code, which asks for no `--pull=never`: an image removed between
\* the fetch and the `run` is pulled inside the measurement.
EveryFetchIsExplicit == \A a \in Agents : AboutToRun(a) => ImageOf[Here(a).key] \in local

\* Every module returns, whatever the runtime does: container.rs gives every
\* command a deadline and every wait a limit.
ModulesReturn == \A a \in Agents : (run[a].mod # None) ~> (run[a].mod = None)
=============================================================================
