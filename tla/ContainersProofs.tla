-------------------------- MODULE ContainersProofs ---------------------------
(***************************************************************************)
(* Theorems about the container tier, for any number of agents that share  *)
(* the daemon, any of the four modules in any of them, any number of runs, *)
(* failures, killed commands and crashes.                                  *)
(*                                                                         *)
(* First the four programs: Row says what a step must be for what comes    *)
(* after it, and each table is shown row by row to be made of such steps.  *)
(* The proofs about the actions use the rows and never a table.  Then the  *)
(* invariant, for every agent: what its place in the program says of what  *)
(* it owes (Shape, Own), of the images it has fetched (Fetched) and of its *)
(* sweep (Swept); and for every object: it is the running module's, which  *)
(* owes it or is just making it, or some command about it was not          *)
(* confirmed (Accounted).  Of what the daemon may still do after a client  *)
(* was killed, LateIsExcused says the same.                                *)
(***************************************************************************)
EXTENDS Containers, TLAPS, SequenceTheorems

-----------------------------------------------------------------------------
(* What the programs have in common                                        *)

Ops == {"discover", "ensure", "reap", "launch", "exec", "build", "save", "rmi",
        "ephemeral", "start", "poll", "drop", "network", "serve"}
\* Steps after which something is owed, and that measure.
Owers == {"launch", "start", "build", "network"}
Measures == {"launch", "exec", "serve", "ephemeral", "start", "poll"}

\* Per module: its length, the images it runs, and where it is done with each
\* fetch, with the sweep, and from where on something is owed at every step.
ModuleNames == {"oltp", "cache", "deployment", "wordpress"}
Length == [oltp |-> 7, cache |-> 7, deployment |-> 14, wordpress |-> 14]
Uses == [oltp |-> {"postgres"}, cache |-> {"valkey"}, deployment |-> {"busybox"},
         wordpress |-> {"mariadb", "wordpress", "cli"}]
EnsuredAt == [postgres |-> 2, valkey |-> 2, busybox |-> 10, mariadb |-> 4, wordpress |-> 5, cli |-> 6]
SweptAt == [oltp |-> 3, cache |-> 3, deployment |-> 3, wordpress |-> 2]
HeldFrom == [oltp |-> 8, cache |-> 8, deployment |-> 13, wordpress |-> 15]
NetworkAt == 7

\* Step s at i of m may lead to t: forward, or out; past a fetch or the sweep only
\* if it is past already or s does it; and to where a thing is owed only from
\* where it is.
Leads(m, i, s, t) ==
    /\ t \in 0..16 /\ (t = 0 \/ t > i)
    /\ t \in 1..Length[m] =>
         /\ \A image \in Uses[m] :
               t > EnsuredAt[image] => \/ i > EnsuredAt[image]
                                       \/ i = EnsuredAt[image] /\ s.op = "ensure" /\ s.key = image
         /\ t > SweptAt[m] => i > SweptAt[m] \/ (i = SweptAt[m] /\ s.op = "reap" /\ s.key = "container")
         /\ t >= HeldFrom[m] => s.op \in {"start", "poll"} /\ (s.op = "poll" => i >= HeldFrom[m])

\* What every step s, at i of m, satisfies.
Row(m, i, s) ==
    /\ s.op \in Ops
    /\ Leads(m, i, s, s.ok) /\ Leads(m, i, s, s.failed) /\ Leads(m, i, s, s.cut)
    /\ s.op = "discover" => s.failed = Abort
    /\ s.op = "ensure" => s.key \in Images /\ s.failed \notin 1..Length[m]
    /\ s.op = "start" => s.failed \notin 1..Length[m] /\ s.cut \notin 1..Length[m]
    /\ s.op \in Makers => /\ s.key \in DOMAIN ImageOf /\ ImageOf[s.key] \in Uses[m]
                          /\ i > EnsuredAt[ImageOf[s.key]]
    /\ s.op \in {"build", "save", "rmi"} => s.key = "image"
    /\ s.op = "network" => s.key = "network" /\ i = NetworkAt
    /\ m = "wordpress" /\ i <= NetworkAt => s.op \notin Owers \ {"network"}
    /\ s.op = "network" => m = "wordpress"
    /\ s.op \in Measures => i > SweptAt[m]
    /\ s.op = "drop" => i >= HeldFrom[m]
    /\ i >= HeldFrom[m] => s.op \in {"poll", "drop"}
    /\ (i = SweptAt[m]) <=> (s.op = "reap" /\ s.key = "container")
    /\ s.op = "reap" => s.key \in {"container", "network", "image"}

Sound(m, p) == DOMAIN p = 1..Length[m] /\ \A i \in 1..Length[m] : Row(m, i, p[i])

\* The rows of each program, one by one.
LEMMA OltpRows == Sound("oltp", Oltp)
  <1>1. /\ DOMAIN Oltp = 1..7
        /\ Oltp[1] = Step("discover", "", 2, Abort, Abort)
        /\ Oltp[2] = Step("ensure", "postgres", 3, Abort, Abort)
        /\ Oltp[3] = Step("reap", "container", 4, 4, Abort)
        /\ Oltp[4] = Step("launch", "postgres", 5, Abort, Abort)
        /\ Oltp[5] = Step("exec", "build", 6, Abort, Abort)
        /\ Oltp[6] = Step("exec", "phase", 7, 7, Abort)
        /\ Oltp[7] = Step("exec", "disclosure", 8, 8, 8)
    BY DEF Oltp
  <1> USE DEF Step, Row, Leads, Abort, Ops, Makers, Owers, Measures, Uses, Length, EnsuredAt,
              SweptAt, HeldFrom, NetworkAt, ImageOf, Images
  <1>2. /\ Row("oltp", 1, Step("discover", "", 2, Abort, Abort))
        /\ Row("oltp", 2, Step("ensure", "postgres", 3, Abort, Abort))
        /\ Row("oltp", 3, Step("reap", "container", 4, 4, Abort))
        /\ Row("oltp", 4, Step("launch", "postgres", 5, Abort, Abort))
        /\ Row("oltp", 5, Step("exec", "build", 6, Abort, Abort))
        /\ Row("oltp", 6, Step("exec", "phase", 7, 7, Abort))
        /\ Row("oltp", 7, Step("exec", "disclosure", 8, 8, 8))
    <2>1. Row("oltp", 1, Step("discover", "", 2, Abort, Abort))
      OBVIOUS
    <2>2. Row("oltp", 2, Step("ensure", "postgres", 3, Abort, Abort))
      OBVIOUS
    <2>3. Row("oltp", 3, Step("reap", "container", 4, 4, Abort))
      OBVIOUS
    <2>4. Row("oltp", 4, Step("launch", "postgres", 5, Abort, Abort))
      OBVIOUS
    <2>5. Row("oltp", 5, Step("exec", "build", 6, Abort, Abort))
      OBVIOUS
    <2>6. Row("oltp", 6, Step("exec", "phase", 7, 7, Abort))
      OBVIOUS
    <2>7. Row("oltp", 7, Step("exec", "disclosure", 8, 8, 8))
      OBVIOUS
    <2> HIDE DEF Row
    <2> QED BY <2>1, <2>2, <2>3, <2>4, <2>5, <2>6, <2>7
  <1> HIDE DEF Step, Row
  <1>3. ASSUME NEW i \in 1..7 PROVE Row("oltp", i, Oltp[i])
    <2>1. i = 1 \/ i = 2 \/ i = 3 \/ i = 4 \/ i = 5 \/ i = 6 \/ i = 7
      OBVIOUS
    <2> QED BY <2>1, <1>1, <1>2
  <1> QED BY <1>1, <1>3 DEF Sound

\* database.cache.
LEMMA CacheRows == Sound("cache", Cache)
  <1>1. /\ DOMAIN Cache = 1..7
        /\ Cache[1] = Step("discover", "", 2, Abort, Abort)
        /\ Cache[2] = Step("ensure", "valkey", 3, Abort, Abort)
        /\ Cache[3] = Step("reap", "container", 4, 4, Abort)
        /\ Cache[4] = Step("launch", "valkey", 5, Abort, Abort)
        /\ Cache[5] = Step("exec", "shape", 6, 6, Abort)
        /\ Cache[6] = Step("exec", "latency", 7, 7, 7)
        /\ Cache[7] = Step("exec", "disclosure", 8, 8, 8)
    BY DEF Cache
  <1> USE DEF Step, Row, Leads, Abort, Ops, Makers, Owers, Measures, Uses, Length, EnsuredAt,
              SweptAt, HeldFrom, NetworkAt, ImageOf, Images
  <1>2. /\ Row("cache", 1, Step("discover", "", 2, Abort, Abort))
        /\ Row("cache", 2, Step("ensure", "valkey", 3, Abort, Abort))
        /\ Row("cache", 3, Step("reap", "container", 4, 4, Abort))
        /\ Row("cache", 4, Step("launch", "valkey", 5, Abort, Abort))
        /\ Row("cache", 5, Step("exec", "shape", 6, 6, Abort))
        /\ Row("cache", 6, Step("exec", "latency", 7, 7, 7))
        /\ Row("cache", 7, Step("exec", "disclosure", 8, 8, 8))
    <2>1. Row("cache", 1, Step("discover", "", 2, Abort, Abort))
      OBVIOUS
    <2>2. Row("cache", 2, Step("ensure", "valkey", 3, Abort, Abort))
      OBVIOUS
    <2>3. Row("cache", 3, Step("reap", "container", 4, 4, Abort))
      OBVIOUS
    <2>4. Row("cache", 4, Step("launch", "valkey", 5, Abort, Abort))
      OBVIOUS
    <2>5. Row("cache", 5, Step("exec", "shape", 6, 6, Abort))
      OBVIOUS
    <2>6. Row("cache", 6, Step("exec", "latency", 7, 7, 7))
      OBVIOUS
    <2>7. Row("cache", 7, Step("exec", "disclosure", 8, 8, 8))
      OBVIOUS
    <2> HIDE DEF Row
    <2> QED BY <2>1, <2>2, <2>3, <2>4, <2>5, <2>6, <2>7
  <1> HIDE DEF Step, Row
  <1>3. ASSUME NEW i \in 1..7 PROVE Row("cache", i, Cache[i])
    <2>1. i = 1 \/ i = 2 \/ i = 3 \/ i = 4 \/ i = 5 \/ i = 6 \/ i = 7
      OBVIOUS
    <2> QED BY <2>1, <1>1, <1>2
  <1> QED BY <1>1, <1>3 DEF Sound

\* deployment.container, whose builds and whose image are optional steps.
LEMMA DeploymentRows == Sound("deployment", Deployment)
  <1>1. /\ DOMAIN Deployment = 1..14
        /\ Deployment[1] = Step("discover", "", 2, Abort, Abort)
        /\ Deployment[2] = Step("reap", "image", 3, 3, Abort)
        /\ Deployment[3] = Step("reap", "container", 4, 4, Abort)
        /\ Deployment[4] = Step("build", "image", 5, 9, 9)
        /\ Deployment[5] = Step("build", "image", 6, 6, 6)
        /\ Deployment[6] = Step("save", "image", 7, 10, 10)
        /\ Deployment[7] = Step("rmi", "image", 8, 8, 8)
        /\ Deployment[8] = Step("build", "image", 10, 10, 10)
        /\ Deployment[9] = Step("build", "image", 10, 10, 10)
        /\ Deployment[10] = Step("ensure", "busybox", 11, 15, 15)
        /\ Deployment[11] = Step("ephemeral", "start", 12, 12, 12)
        /\ Deployment[12] = Step("start", "health", 13, 15, 15)
        /\ Deployment[13] = Step("poll", "health", 14, 14, 14)
        /\ Deployment[14] = Step("drop", "health", 15, 15, 15)
    <2>1. DOMAIN Deployment = 1..14
      BY DEF Deployment
    <2>2. /\ Deployment[1] = Step("discover", "", 2, Abort, Abort)
          /\ Deployment[2] = Step("reap", "image", 3, 3, Abort)
          /\ Deployment[3] = Step("reap", "container", 4, 4, Abort)
          /\ Deployment[4] = Step("build", "image", 5, 9, 9)
          /\ Deployment[5] = Step("build", "image", 6, 6, 6)
          /\ Deployment[6] = Step("save", "image", 7, 10, 10)
          /\ Deployment[7] = Step("rmi", "image", 8, 8, 8)
      BY DEF Deployment
    <2>3. /\ Deployment[8] = Step("build", "image", 10, 10, 10)
          /\ Deployment[9] = Step("build", "image", 10, 10, 10)
          /\ Deployment[10] = Step("ensure", "busybox", 11, 15, 15)
          /\ Deployment[11] = Step("ephemeral", "start", 12, 12, 12)
          /\ Deployment[12] = Step("start", "health", 13, 15, 15)
          /\ Deployment[13] = Step("poll", "health", 14, 14, 14)
          /\ Deployment[14] = Step("drop", "health", 15, 15, 15)
      BY DEF Deployment
    <2> QED BY <2>1, <2>2, <2>3
  <1> USE DEF Step, Row, Leads, Abort, Ops, Makers, Owers, Measures, Uses, Length, EnsuredAt,
              SweptAt, HeldFrom, NetworkAt, ImageOf, Images
  <1>2. /\ Row("deployment", 1, Step("discover", "", 2, Abort, Abort))
        /\ Row("deployment", 2, Step("reap", "image", 3, 3, Abort))
        /\ Row("deployment", 3, Step("reap", "container", 4, 4, Abort))
        /\ Row("deployment", 4, Step("build", "image", 5, 9, 9))
        /\ Row("deployment", 5, Step("build", "image", 6, 6, 6))
        /\ Row("deployment", 6, Step("save", "image", 7, 10, 10))
        /\ Row("deployment", 7, Step("rmi", "image", 8, 8, 8))
    <2>1. Row("deployment", 1, Step("discover", "", 2, Abort, Abort))
      OBVIOUS
    <2>2. Row("deployment", 2, Step("reap", "image", 3, 3, Abort))
      OBVIOUS
    <2>3. Row("deployment", 3, Step("reap", "container", 4, 4, Abort))
      OBVIOUS
    <2>4. Row("deployment", 4, Step("build", "image", 5, 9, 9))
      OBVIOUS
    <2>5. Row("deployment", 5, Step("build", "image", 6, 6, 6))
      OBVIOUS
    <2>6. Row("deployment", 6, Step("save", "image", 7, 10, 10))
      OBVIOUS
    <2>7. Row("deployment", 7, Step("rmi", "image", 8, 8, 8))
      OBVIOUS
    <2> HIDE DEF Row
    <2> QED BY <2>1, <2>2, <2>3, <2>4, <2>5, <2>6, <2>7
  <1>3. /\ Row("deployment", 8, Step("build", "image", 10, 10, 10))
        /\ Row("deployment", 9, Step("build", "image", 10, 10, 10))
        /\ Row("deployment", 10, Step("ensure", "busybox", 11, 15, 15))
        /\ Row("deployment", 11, Step("ephemeral", "start", 12, 12, 12))
        /\ Row("deployment", 12, Step("start", "health", 13, 15, 15))
        /\ Row("deployment", 13, Step("poll", "health", 14, 14, 14))
        /\ Row("deployment", 14, Step("drop", "health", 15, 15, 15))
    <2>1. Row("deployment", 8, Step("build", "image", 10, 10, 10))
      OBVIOUS
    <2>2. Row("deployment", 9, Step("build", "image", 10, 10, 10))
      OBVIOUS
    <2>3. Row("deployment", 10, Step("ensure", "busybox", 11, 15, 15))
      OBVIOUS
    <2>4. Row("deployment", 11, Step("ephemeral", "start", 12, 12, 12))
      OBVIOUS
    <2>5. Row("deployment", 12, Step("start", "health", 13, 15, 15))
      OBVIOUS
    <2>6. Row("deployment", 13, Step("poll", "health", 14, 14, 14))
      OBVIOUS
    <2>7. Row("deployment", 14, Step("drop", "health", 15, 15, 15))
      OBVIOUS
    <2> HIDE DEF Row
    <2> QED BY <2>1, <2>2, <2>3, <2>4, <2>5, <2>6, <2>7
  <1> HIDE DEF Step, Row
  <1>4. ASSUME NEW i \in 1..14 PROVE Row("deployment", i, Deployment[i])
    <2>1. CASE i \in 1..7
      <3>1. i = 1 \/ i = 2 \/ i = 3 \/ i = 4 \/ i = 5 \/ i = 6 \/ i = 7
        BY <2>1
      <3>2. /\ Row("deployment", 1, Deployment[1])
            /\ Row("deployment", 2, Deployment[2])
            /\ Row("deployment", 3, Deployment[3])
            /\ Row("deployment", 4, Deployment[4])
            /\ Row("deployment", 5, Deployment[5])
            /\ Row("deployment", 6, Deployment[6])
            /\ Row("deployment", 7, Deployment[7])
        BY <1>1, <1>2
      <3> QED BY ONLY <3>1, <3>2
    <2>2. CASE i \notin 1..7
      <3>1. i = 8 \/ i = 9 \/ i = 10 \/ i = 11 \/ i = 12 \/ i = 13 \/ i = 14
        BY <2>2
      <3>2. /\ Row("deployment", 8, Deployment[8])
            /\ Row("deployment", 9, Deployment[9])
            /\ Row("deployment", 10, Deployment[10])
            /\ Row("deployment", 11, Deployment[11])
            /\ Row("deployment", 12, Deployment[12])
            /\ Row("deployment", 13, Deployment[13])
            /\ Row("deployment", 14, Deployment[14])
        BY <1>1, <1>3
      <3> QED BY ONLY <3>1, <3>2
    <2> QED BY <2>1, <2>2
  <1> QED BY <1>1, <1>4 DEF Sound

\* wordpress.site, the only one with a network.
LEMMA WordpressRows == Sound("wordpress", Wordpress)
  <1>1. /\ DOMAIN Wordpress = 1..14
        /\ Wordpress[1] = Step("discover", "", 2, Abort, Abort)
        /\ Wordpress[2] = Step("reap", "container", 3, 3, Abort)
        /\ Wordpress[3] = Step("reap", "network", 4, 4, 4)
        /\ Wordpress[4] = Step("ensure", "mariadb", 5, Abort, Abort)
        /\ Wordpress[5] = Step("ensure", "wordpress", 6, Abort, Abort)
        /\ Wordpress[6] = Step("ensure", "cli", 7, Abort, Abort)
        /\ Wordpress[7] = Step("network", "network", 8, Abort, Abort)
        /\ Wordpress[8] = Step("launch", "mariadb", 9, Abort, Abort)
        /\ Wordpress[9] = Step("launch", "wordpress", 10, Abort, Abort)
        /\ Wordpress[10] = Step("ephemeral", "install", 11, Abort, Abort)
        /\ Wordpress[11] = Step("ephemeral", "import", 12, Abort, Abort)
        /\ Wordpress[12] = Step("serve", "", 13, Abort, Abort)
        /\ Wordpress[13] = Step("ephemeral", "ask", 14, 14, 14)
        /\ Wordpress[14] = Step("ephemeral", "ask", 15, 15, 15)
    <2>1. DOMAIN Wordpress = 1..14
      BY DEF Wordpress
    <2>2. /\ Wordpress[1] = Step("discover", "", 2, Abort, Abort)
          /\ Wordpress[2] = Step("reap", "container", 3, 3, Abort)
          /\ Wordpress[3] = Step("reap", "network", 4, 4, 4)
          /\ Wordpress[4] = Step("ensure", "mariadb", 5, Abort, Abort)
          /\ Wordpress[5] = Step("ensure", "wordpress", 6, Abort, Abort)
          /\ Wordpress[6] = Step("ensure", "cli", 7, Abort, Abort)
          /\ Wordpress[7] = Step("network", "network", 8, Abort, Abort)
      BY DEF Wordpress
    <2>3. /\ Wordpress[8] = Step("launch", "mariadb", 9, Abort, Abort)
          /\ Wordpress[9] = Step("launch", "wordpress", 10, Abort, Abort)
          /\ Wordpress[10] = Step("ephemeral", "install", 11, Abort, Abort)
          /\ Wordpress[11] = Step("ephemeral", "import", 12, Abort, Abort)
          /\ Wordpress[12] = Step("serve", "", 13, Abort, Abort)
          /\ Wordpress[13] = Step("ephemeral", "ask", 14, 14, 14)
          /\ Wordpress[14] = Step("ephemeral", "ask", 15, 15, 15)
      BY DEF Wordpress
    <2> QED BY <2>1, <2>2, <2>3
  <1> USE DEF Step, Row, Leads, Abort, Ops, Makers, Owers, Measures, Uses, Length, EnsuredAt,
              SweptAt, HeldFrom, NetworkAt, ImageOf, Images
  <1>2. /\ Row("wordpress", 1, Step("discover", "", 2, Abort, Abort))
        /\ Row("wordpress", 2, Step("reap", "container", 3, 3, Abort))
        /\ Row("wordpress", 3, Step("reap", "network", 4, 4, 4))
        /\ Row("wordpress", 4, Step("ensure", "mariadb", 5, Abort, Abort))
        /\ Row("wordpress", 5, Step("ensure", "wordpress", 6, Abort, Abort))
        /\ Row("wordpress", 6, Step("ensure", "cli", 7, Abort, Abort))
        /\ Row("wordpress", 7, Step("network", "network", 8, Abort, Abort))
    <2>1. Row("wordpress", 1, Step("discover", "", 2, Abort, Abort))
      OBVIOUS
    <2>2. Row("wordpress", 2, Step("reap", "container", 3, 3, Abort))
      OBVIOUS
    <2>3. Row("wordpress", 3, Step("reap", "network", 4, 4, 4))
      OBVIOUS
    <2>4. Row("wordpress", 4, Step("ensure", "mariadb", 5, Abort, Abort))
      OBVIOUS
    <2>5. Row("wordpress", 5, Step("ensure", "wordpress", 6, Abort, Abort))
      OBVIOUS
    <2>6. Row("wordpress", 6, Step("ensure", "cli", 7, Abort, Abort))
      OBVIOUS
    <2>7. Row("wordpress", 7, Step("network", "network", 8, Abort, Abort))
      OBVIOUS
    <2> HIDE DEF Row
    <2> QED BY <2>1, <2>2, <2>3, <2>4, <2>5, <2>6, <2>7
  <1>3. /\ Row("wordpress", 8, Step("launch", "mariadb", 9, Abort, Abort))
        /\ Row("wordpress", 9, Step("launch", "wordpress", 10, Abort, Abort))
        /\ Row("wordpress", 10, Step("ephemeral", "install", 11, Abort, Abort))
        /\ Row("wordpress", 11, Step("ephemeral", "import", 12, Abort, Abort))
        /\ Row("wordpress", 12, Step("serve", "", 13, Abort, Abort))
        /\ Row("wordpress", 13, Step("ephemeral", "ask", 14, 14, 14))
        /\ Row("wordpress", 14, Step("ephemeral", "ask", 15, 15, 15))
    <2>1. Row("wordpress", 8, Step("launch", "mariadb", 9, Abort, Abort))
      OBVIOUS
    <2>2. Row("wordpress", 9, Step("launch", "wordpress", 10, Abort, Abort))
      OBVIOUS
    <2>3. Row("wordpress", 10, Step("ephemeral", "install", 11, Abort, Abort))
      OBVIOUS
    <2>4. Row("wordpress", 11, Step("ephemeral", "import", 12, Abort, Abort))
      OBVIOUS
    <2>5. Row("wordpress", 12, Step("serve", "", 13, Abort, Abort))
      OBVIOUS
    <2>6. Row("wordpress", 13, Step("ephemeral", "ask", 14, 14, 14))
      OBVIOUS
    <2>7. Row("wordpress", 14, Step("ephemeral", "ask", 15, 15, 15))
      OBVIOUS
    <2> HIDE DEF Row
    <2> QED BY <2>1, <2>2, <2>3, <2>4, <2>5, <2>6, <2>7
  <1> HIDE DEF Step, Row
  <1>4. ASSUME NEW i \in 1..14 PROVE Row("wordpress", i, Wordpress[i])
    <2>1. CASE i \in 1..7
      <3>1. i = 1 \/ i = 2 \/ i = 3 \/ i = 4 \/ i = 5 \/ i = 6 \/ i = 7
        BY <2>1
      <3>2. /\ Row("wordpress", 1, Wordpress[1])
            /\ Row("wordpress", 2, Wordpress[2])
            /\ Row("wordpress", 3, Wordpress[3])
            /\ Row("wordpress", 4, Wordpress[4])
            /\ Row("wordpress", 5, Wordpress[5])
            /\ Row("wordpress", 6, Wordpress[6])
            /\ Row("wordpress", 7, Wordpress[7])
        BY <1>1, <1>2
      <3> QED BY ONLY <3>1, <3>2
    <2>2. CASE i \notin 1..7
      <3>1. i = 8 \/ i = 9 \/ i = 10 \/ i = 11 \/ i = 12 \/ i = 13 \/ i = 14
        BY <2>2
      <3>2. /\ Row("wordpress", 8, Wordpress[8])
            /\ Row("wordpress", 9, Wordpress[9])
            /\ Row("wordpress", 10, Wordpress[10])
            /\ Row("wordpress", 11, Wordpress[11])
            /\ Row("wordpress", 12, Wordpress[12])
            /\ Row("wordpress", 13, Wordpress[13])
            /\ Row("wordpress", 14, Wordpress[14])
        BY <1>1, <1>3
      <3> QED BY ONLY <3>1, <3>2
    <2> QED BY <2>1, <2>2
  <1> QED BY <1>1, <1>4 DEF Sound

\* The step a module is at, in a program whose rows are sound.
LEMMA ProgramsAreSound == \A m \in ModuleNames : Sound(m, Program[m])
  <1>1. /\ Program["oltp"] = Oltp /\ Program["cache"] = Cache
        /\ Program["deployment"] = Deployment /\ Program["wordpress"] = Wordpress
    BY DEF Program
  <1> QED BY <1>1, OltpRows, CacheRows, DeploymentRows, WordpressRows DEF ModuleNames

-----------------------------------------------------------------------------
(* The invariant                                                           *)

Names == Agents \X Nat \X Keys
Subs == {"begin", "remove", "port", "wait", "undo", "running"}
RunRecords == [mod : ModuleNames \cup {None}, at : 0..16, sub : Subs, owed : Seq(Names),
               listed : SUBSET Names]

Typed ==
    /\ \A x \in DOMAIN daemon : x \in Names /\ daemon[x] \in States
    /\ local \subseteq Images /\ gone \subseteq Agents \X Images
    /\ \A e \in late : e[1] \in Names /\ e[2] \in States \cup {Gone}
    /\ run \in [Agents -> RunRecords]
    /\ \A a \in Agents : run[a].mod \in Modules[a] \cup {None}
    /\ starts \in [Agents -> Nat] /\ \A a \in Agents : starts[a] <= MaxRuns[a]
    /\ faults \in 0..MaxFaults

\* r is inside its program, at this step.
Inside(r) == r.mod # None /\ r.at \in 1..Length[r.mod]
StepOf(r) == Program[r.mod][r.at]

\* What a place in a program allows: where inside the step, and what is owed.
Shape(r) ==
    /\ r.sub # "begin" => Inside(r)
    /\ r.sub = "remove" => StepOf(r).op = "reap"
    /\ r.sub = "port" => StepOf(r).op \in {"launch", "start"}
    /\ r.sub = "wait" => StepOf(r).op = "launch"
    /\ r.sub = "undo" => StepOf(r).op \in Makers
    /\ r.sub = "running" => StepOf(r).op = "ephemeral"
    /\ r.mod = None => r.owed = <<>>
    /\ \A i \in DOMAIN r.owed : Kind(r.owed[i]) = "network" => i = 1
    /\ r.mod = "wordpress" /\ r.at \in 1..NetworkAt => r.owed = <<>>
    /\ Inside(r) /\ r.at >= HeldFrom[r.mod] => r.owed # <<>>

\* Every image fetched so far and still needed is on the host, or went since.
Fetched(a, r) ==
    Inside(r) => \A image \in Uses[r.mod] :
                    r.at > EnsuredAt[image] /\ Needs(r, image) => AtHand(a, image)

\* Containers of a's dead runs.
Residue(a) == {x \in Labelled("container") : x[1] = a /\ x[2] < starts[a]}

\* The sweep is over, or has a list of what there was.
Swept(a, r) ==
    Inside(r) =>
        /\ r.at > SweptAt[r.mod] => Residue(a) \subseteq strays
        /\ r.at = SweptAt[r.mod] /\ r.sub = "remove" => Residue(a) \subseteq r.listed \cup strays

\* What is owed is the module's own.
Own(a, r) == \A i \in DOMAIN r.owed : r.owed[i][1] = a /\ r.owed[i][2] = starts[a]

Fits(a, r) == Shape(r) /\ Own(a, r) /\ Fetched(a, r) /\ Swept(a, r)

\* Names are given in the order of the runs.
Fresh ==
    /\ \A x \in DOMAIN daemon : x[2] <= starts[x[1]]
    /\ \A e \in late : e[1][2] <= starts[e[1][1]]

LateIsExcused == \A e \in late : e[2] # Gone => e[1] \in excused

\* A running module answers for x: it owes it, or is just making it.
Held(x) ==
    \/ x \in Range(run[x[1]].owed)
    \/ run[x[1]].sub \in {"port", "undo", "running"} /\ x = Mine(x[1])

Accounted == \A x \in DOMAIN daemon : Unconfirmed(x) \/ (Live(x) /\ Held(x))

Inv ==
    /\ Typed /\ Fresh /\ LateIsExcused /\ Accounted
    /\ \A a \in Agents : Fits(a, run[a])

-----------------------------------------------------------------------------
(* Places in a program                                                     *)

Targets(s) == {s.ok, s.failed, s.cut}

\* What an agent's record holds.
LEMMA ModuleNamesAreNotNone ==
  ASSUME Typed, NEW a \in Agents
  PROVE  /\ run[a] \in RunRecords
         /\ run[a].mod # None => run[a].mod \in ModuleNames
  BY DEF Typed, RunRecords

\* The row of the step an agent is inside.
LEMMA StepIsSound ==
  ASSUME NEW r \in RunRecords, Inside(r)
  PROVE  Row(r.mod, r.at, StepOf(r)) /\ r.mod \in ModuleNames /\ DOMAIN Program[r.mod] = 1..Length[r.mod]
  BY ProgramsAreSound DEF RunRecords, Inside, StepOf, Sound

\* A module that goes on to another step of its program has fetched what it
\* had, and what it is fetching.
LEMMA FetchedOnward ==
  ASSUME NEW a, NEW r \in RunRecords, Inside(r), Fetched(a, r), NEW s \in RunRecords, s.mod = r.mod,
         s.at \in Targets(StepOf(r)), \A image : AtHand(a, image) => AtHand(a, image)',
         StepOf(r).op = "ensure" => StepOf(r).key \in local'
  PROVE  Fetched(a, s)'
  <1>1. /\ Leads(r.mod, r.at, StepOf(r), s.at)
        /\ r.mod \in ModuleNames /\ DOMAIN Program[r.mod] = 1..Length[r.mod]
    BY StepIsSound DEF Row, Targets
  <1> SUFFICES ASSUME Inside(s), NEW image \in Uses[s.mod], s.at > EnsuredAt[image],
                      Needs(s, image)
               PROVE  AtHand(a, image)'
    BY DEF Fetched, Inside, Needs
  <1>2. \/ r.at > EnsuredAt[image]
        \/ r.at = EnsuredAt[image] /\ StepOf(r).op = "ensure" /\ StepOf(r).key = image
    BY <1>1 DEF Leads, Inside
  <1>3. Needs(r, image)
    <2>1. s.at > r.at /\ r.at \in Nat /\ s.at \in Nat
      BY <1>1 DEF Leads, Inside, RunRecords
    <2>2. PICK i \in DOMAIN Program[s.mod] :
             /\ i >= s.at /\ Program[s.mod][i].op \in Makers
             /\ ImageOf[Program[s.mod][i].key] = image
      BY DEF Needs
    <2>3. i \in Int
      BY <1>1, <2>2
    <2>4. i >= r.at
      BY <2>1, <2>2, <2>3
    <2> QED BY <2>2, <2>4 DEF Needs, Inside
  <1> QED BY <1>2, <1>3 DEF Fetched, AtHand

\* It has swept what it had, and what it is sweeping.
LEMMA SweptOnward ==
  ASSUME NEW a, NEW r \in RunRecords, Inside(r), Swept(a, r), NEW s \in RunRecords, s.mod = r.mod,
         s.at \in Targets(StepOf(r)), s.sub = "begin",
         \A x \in Residue(a)' : x \in strays' \/ (x \in Residue(a) /\ x \notin strays),
         StepOf(r).op = "reap" /\ StepOf(r).key = "container" => Residue(a)' \subseteq strays'
  PROVE  Swept(a, s)'
  <1>1. Leads(r.mod, r.at, StepOf(r), s.at)
    BY StepIsSound DEF Row, Targets
  <1> SUFFICES ASSUME Inside(s), s.at > SweptAt[s.mod]
               PROVE  Residue(a)' \subseteq strays'
    BY DEF Swept, Inside
  <1>2. \/ r.at > SweptAt[r.mod]
        \/ StepOf(r).op = "reap" /\ StepOf(r).key = "container"
    BY <1>1 DEF Leads, Inside
  <1> QED BY <1>2 DEF Swept

\* A place that owes what the last one did.  Where a `start` that succeeded goes,
\* something more is owed.
LEMMA ShapeOnward ==
  ASSUME NEW r \in RunRecords, Inside(r), Shape(r), NEW s \in RunRecords, s.mod = r.mod,
         s.at \in Targets(StepOf(r)), s.sub = "begin", s.owed = r.owed,
         StepOf(r).op = "start" => s.at \in {StepOf(r).failed, StepOf(r).cut}
  PROVE  Shape(s)
  <1>1. /\ Leads(r.mod, r.at, StepOf(r), s.at) /\ Row(r.mod, r.at, StepOf(r))
        /\ r.at \in 0..16 /\ s.at \in 0..16
    BY StepIsSound DEF Row, Targets, RunRecords
  <1>2. s.mod # None
    BY DEF Inside
  <1>3. s.mod = "wordpress" /\ s.at \in 1..NetworkAt => s.owed = <<>>
    BY <1>1 DEF Shape, Leads, NetworkAt, Inside
  <1>4. Inside(s) /\ s.at >= HeldFrom[s.mod] => s.owed # <<>>
    BY <1>1 DEF Shape, Leads, Row, Inside
  <1> QED BY <1>2, <1>3, <1>4 DEF Shape

\* A place that owes one thing more.  A network is owed by the step that made it,
\* before which nothing was.
LEMMA ShapeOwing ==
  ASSUME NEW r \in RunRecords, Inside(r), Shape(r), NEW s \in RunRecords, s.mod = r.mod,
         s.at \in Targets(StepOf(r)), s.sub = "begin",
         NEW x \in Names, s.owed = Append(r.owed, x), StepOf(r).op \in Owers,
         Kind(x) = "network" => StepOf(r).op = "network"
  PROVE  Shape(s)
  <1>1. /\ Leads(r.mod, r.at, StepOf(r), s.at) /\ Row(r.mod, r.at, StepOf(r))
        /\ r.at \in 1..16 /\ s.at \in 0..16 /\ r.owed \in Seq(Names)
    BY StepIsSound DEF Row, Targets, RunRecords, Inside
  <1>2. s.mod # None
    BY DEF Inside
  <1>3. ~(s.mod = "wordpress" /\ s.at \in 1..NetworkAt)
    <2> SUFFICES ASSUME r.mod = "wordpress", s.at \in 1..NetworkAt PROVE FALSE
      OBVIOUS
    <2>1. s.at > r.at
      BY <1>1 DEF Leads
    <2>2. r.at < NetworkAt
      BY <1>1, <2>1 DEF NetworkAt
    <2>3. StepOf(r).op = "network" => r.at = NetworkAt
      BY <1>1 DEF Row
    <2>4. r.at <= NetworkAt => StepOf(r).op = "network"
      BY <1>1 DEF Row
    <2>5. NetworkAt \in Nat /\ r.at \in Nat
      BY <1>1 DEF NetworkAt
    <2> QED BY <2>2, <2>3, <2>4, <2>5
  <1>4. s.owed # <<>>
    BY <1>1
  <1>5. ASSUME NEW i \in DOMAIN s.owed, Kind(s.owed[i]) = "network"
        PROVE  i = 1
    <2>1. CASE i \in DOMAIN r.owed
      <3>1. s.owed[i] = r.owed[i]
        BY <1>1, <2>1
      <3> QED BY <1>5, <2>1, <3>1 DEF Shape
    <2>2. CASE i \notin DOMAIN r.owed
      <3>1. i = Len(r.owed) + 1 /\ s.owed[i] = x
        BY <1>1, <2>2
      <3>2. StepOf(r).op = "network"
        BY <1>5, <3>1
      <3>3. r.owed = <<>>
        BY <1>1, <3>2 DEF Shape, Row, NetworkAt
      <3> QED BY <3>1, <3>3
    <2> QED BY <2>1, <2>2
  <1> QED BY <1>2, <1>3, <1>4, <1>5 DEF Shape

\* Giving up the last thing owed, outside the program or where it drops it.
LEMMA ShapePopped ==
  ASSUME NEW r \in RunRecords, r.mod # None, Shape(r), r.owed # <<>>, NEW s \in RunRecords,
         s.mod = r.mod, s.sub = "begin", s.owed = Front(r.owed),
         \/ ~Inside(r) /\ s.at = r.at
         \/ Inside(r) /\ StepOf(r).op = "drop" /\ s.at \in Targets(StepOf(r))
  PROVE  Shape(s) /\ ~Inside(s)
  <1>1. ~Inside(s)
    <2>1. CASE ~Inside(r) /\ s.at = r.at
      BY <2>1 DEF Inside
    <2>2. CASE Inside(r) /\ StepOf(r).op = "drop" /\ s.at \in Targets(StepOf(r))
      <3>1. Leads(r.mod, r.at, StepOf(r), s.at) /\ Row(r.mod, r.at, StepOf(r))
        BY <2>2, StepIsSound DEF Row, Targets
      <3>2. r.at \in 0..16 /\ s.at \in 0..16 /\ r.at >= HeldFrom[r.mod] /\ r.mod \in ModuleNames
        BY <2>2, <3>1, StepIsSound DEF Row, RunRecords
      <3>3. HeldFrom[r.mod] \in 1..16
        BY <3>2 DEF HeldFrom, ModuleNames
      <3>4. s.at = 0 \/ s.at >= HeldFrom[r.mod]
        <4>1. s.at = 0 \/ s.at > r.at
          BY <3>1 DEF Leads
        <4> QED BY <3>2, <3>3, <4>1
      <3> QED BY <2>2, <3>1, <3>4 DEF Leads, Inside
    <2> QED BY <2>1, <2>2
  <1>2. r.owed \in Seq(Names) /\ Len(r.owed) > 0
    BY DEF RunRecords
  <1>3. /\ s.owed \in Seq(Names) /\ DOMAIN s.owed = 1..(Len(r.owed) - 1)
        /\ \A i \in 1..(Len(r.owed) - 1) : s.owed[i] = r.owed[i]
    BY <1>2 DEF Front
  <1>4. \A i \in DOMAIN s.owed : Kind(s.owed[i]) = "network" => i = 1
    BY <1>2, <1>3 DEF Shape
  <1>5. s.mod = "wordpress" => ~(s.at \in 1..NetworkAt)
    BY <1>1 DEF Inside, NetworkAt, Length
  <1> QED BY <1>1, <1>4, <1>5 DEF Shape

-----------------------------------------------------------------------------
(* What every step of an agent does to the daemon and to the others        *)

\* The daemon after a step of agent a: what is new is a's own of this run, and
\* what it may still do is either a removal or excused.
DaemonMoves(a) ==
    /\ \A x \in DOMAIN daemon' : x \in Names /\ daemon'[x] \in States
    /\ \A x \in DOMAIN daemon' :
          x \in DOMAIN daemon \/ (x[1] = a /\ x[2] = starts[a])
    /\ \A e \in late' :
          \/ e \in late
          \/ /\ e[1] \in Names /\ e[2] \in States \cup {Gone} /\ e[1][2] <= starts[e[1][1]]
             /\ e[2] # Gone => e[1] \in excused'
    /\ local' \subseteq Images /\ gone' \subseteq Agents \X Images
    /\ \A b \in Agents : \A image : AtHand(b, image) => AtHand(b, image)'
    /\ excused \subseteq excused' /\ strays \subseteq strays'
    /\ faults' \in 0..MaxFaults
    /\ starts' = starts

\* What agent a is to stand for after its step: that it is now at r.
StandsAt(a, r) ==
    /\ run' = [run EXCEPT ![a] = r]
    /\ Fits(a, r)'
    /\ \A x \in DOMAIN daemon' :
          x[1] = a => Unconfirmed(x)' \/ (Live(x)' /\ Held(x)')

\* An agent that is at r after a step fits there if r does.
LEMMA FitsWhereItIs ==
  ASSUME NEW b, NEW r, run'[b] = r, Fits(b, r)'
  PROVE  Fits(b, run[b])'
  <1>1. Shape(run[b])'
    BY DEF Fits, Shape, Inside, StepOf
  <1>2. Own(b, run[b])'
    BY DEF Fits, Own
  <1>3. Fetched(b, run[b])'
    BY DEF Fits, Fetched, Needs, AtHand, Inside
  <1>4. Swept(b, run[b])'
    BY DEF Fits, Swept, Inside, Residue, Labelled
  <1> QED BY <1>1, <1>2, <1>3, <1>4 DEF Fits

\* A step of one agent: what the others have, they keep.
LEMMA AgentStep ==
  ASSUME Inv, NEW a \in Agents, NEW r \in RunRecords, r.mod \in {run[a].mod, None},
         DaemonMoves(a), StandsAt(a, r)
  PROVE  Inv'
  <1>1. run \in [Agents -> RunRecords] /\ starts \in [Agents -> Nat]
    BY DEF Inv, Typed
  <1>2. run'[a] = r /\ \A b \in Agents : b # a => run'[b] = run[b]
    BY <1>1 DEF StandsAt
  <1>3. Typed'
    <2>1. \A e \in late' : e[1] \in Names /\ e[2] \in States \cup {Gone}
      BY DEF DaemonMoves, Inv, Typed
    <2>2. run' \in [Agents -> RunRecords]
      BY <1>1 DEF StandsAt
    <2>3. \A b \in Agents : run'[b].mod \in Modules[b] \cup {None}
      BY <1>2 DEF Inv, Typed
    <2> QED BY <2>1, <2>2, <2>3 DEF DaemonMoves, Inv, Typed
  <1>4. Fresh'
    <2>1. \A x \in DOMAIN daemon' : x[2] <= starts'[x[1]]
      <3> SUFFICES ASSUME NEW x \in DOMAIN daemon' PROVE x[2] <= starts[x[1]]
        BY DEF DaemonMoves
      <3>1. x \in Names /\ (x \in DOMAIN daemon \/ (x[1] = a /\ x[2] = starts[a]))
        BY DEF DaemonMoves
      <3>2. starts[a] <= starts[a]
        BY <1>1
      <3> QED BY <3>1, <3>2 DEF Inv, Fresh
    <2>2. \A e \in late' : e[1][2] <= starts'[e[1][1]]
      BY DEF DaemonMoves, Inv, Fresh
    <2> QED BY <2>1, <2>2 DEF Fresh
  <1>5. LateIsExcused'
    BY DEF DaemonMoves, Inv, LateIsExcused
  <1>7. \A x : Unconfirmed(x) => Unconfirmed(x)'
    BY DEF Unconfirmed, DaemonMoves
  <1>8. Accounted'
    <2> SUFFICES ASSUME NEW x \in DOMAIN daemon'
                 PROVE  Unconfirmed(x)' \/ (Live(x)' /\ Held(x)')
      BY DEF Accounted
    <2>1. CASE x[1] = a
      BY <2>1 DEF StandsAt
    <2>2. CASE x[1] # a
      <3>1. x \in DOMAIN daemon /\ x \in Names /\ x[1] \in Agents
        BY <2>2 DEF DaemonMoves, Names
      <3>2. Unconfirmed(x) \/ (Live(x) /\ Held(x))
        BY <3>1 DEF Inv, Accounted
      <3>3. run'[x[1]] = run[x[1]] /\ starts' = starts
        BY <1>2, <2>2, <3>1 DEF DaemonMoves
      <3>4. Live(x) /\ Held(x) => Live(x)' /\ Held(x)'
        <4>1. Live(x)' <=> Live(x)
          BY <3>3 DEF Live
        <4>2. Mine(x[1])' = Mine(x[1])
          BY ONLY <3>3 DEF Mine, Here, Name
        <4>3. Held(x)' <=> Held(x)
          BY <3>3, <4>2 DEF Held
        <4> QED BY <4>1, <4>3
      <3> QED BY <1>7, <3>2, <3>4
    <2> QED BY <2>1, <2>2
  <1>9. ASSUME NEW b \in Agents PROVE Fits(b, run[b])'
    <2>1. CASE b = a
      BY <1>2, <2>1, FitsWhereItIs DEF StandsAt
    <2>2. CASE b # a
      <3>1. run'[b] = run[b] /\ Fits(b, run[b])
        BY <1>2, <2>2 DEF Inv
      <3>2. Shape(run[b])'
        BY <3>1 DEF Fits, Shape, Inside, StepOf
      <3>3. Fetched(b, run[b])'
        BY <3>1 DEF Fits, Fetched, Needs, Inside, DaemonMoves
      <3>4. Residue(b)' \subseteq Residue(b)
        BY <2>2 DEF Residue, Labelled, DaemonMoves
      <3>5. Swept(b, run[b])'
        BY <3>1, <3>4 DEF Fits, Swept, Inside, DaemonMoves
      <3>6. Own(b, run[b])'
        BY <3>1 DEF Fits, Own, DaemonMoves
      <3> QED BY <3>2, <3>3, <3>5, <3>6 DEF Fits
    <2> QED BY <2>1, <2>2
  <1> QED BY <1>3, <1>4, <1>5, <1>8, <1>9 DEF Inv

\* What is left of a's run after its step is excused, owed, or being made.
Accounts(a, r) ==
    \A x \in DOMAIN daemon' :
        x[1] = a /\ x[2] = starts[a] =>
            \/ Unconfirmed(x)'
            \/ x \in Range(r.owed)
            \/ r.sub \in {"port", "undo", "running"} /\ x = Name(a, StepOf(r).key)

\* A step within the module: the place it comes to fits, and everything is
\* accounted for.
LEMMA PlaceStep ==
  ASSUME Inv, NEW a \in Agents, run[a].mod # None, NEW r \in RunRecords, r.mod = run[a].mod,
         run' = [run EXCEPT ![a] = r], DaemonMoves(a), Fits(a, r)', Accounts(a, r)
  PROVE  Inv'
  <1>1. run \in [Agents -> RunRecords] /\ starts \in [Agents -> Nat]
    BY DEF Inv, Typed
  <1>2. run'[a] = r /\ starts' = starts
    BY <1>1 DEF DaemonMoves
  <1>3. ASSUME NEW x \in DOMAIN daemon', x[1] = a
        PROVE  Unconfirmed(x)' \/ (Live(x)' /\ Held(x)')
    <2>1. CASE x[2] = starts[a]
      <3>1. Live(x)'
        BY <1>2, <1>3, <2>1 DEF Live
      <3>2. x = Name(a, StepOf(r).key) => x = Mine(x[1])'
        BY <1>2, <1>3 DEF Mine, Here, Name, StepOf
      <3>3. \/ Unconfirmed(x)'
            \/ x \in Range(r.owed)
            \/ r.sub \in {"port", "undo", "running"} /\ x = Name(a, StepOf(r).key)
        BY <1>3, <2>1 DEF Accounts
      <3> QED BY <1>2, <1>3, <3>1, <3>2, <3>3 DEF Held
    <2>2. CASE x[2] # starts[a]
      <3>1. x \in DOMAIN daemon /\ ~Live(x)
        BY <1>3, <2>2 DEF DaemonMoves, Live
      <3>2. Unconfirmed(x)
        BY <3>1 DEF Inv, Accounted
      <3> QED BY <3>2 DEF Unconfirmed, DaemonMoves
    <2> QED BY <2>1, <2>2
  <1>4. StandsAt(a, r)
    BY <1>3 DEF StandsAt
  <1> QED BY <1>4, AgentStep

\* The same of the run as it was before the step, but for what is in X.
LeftBehind(a, X) ==
    \A x \in DOMAIN daemon' :
        x[1] = a /\ x[2] = starts[a] => Unconfirmed(x)' \/ x \in Range(run[a].owed) \/ x \in X

\* Owing one thing more.
LEMMA OwedOnceMore ==
  ASSUME NEW o \in Seq(Names), NEW y \in Names
  PROVE  LET p == Append(o, y)
         IN  /\ \A i \in DOMAIN p : p[i] = y \/ (i \in DOMAIN o /\ p[i] = o[i])
             /\ Range(p) = Range(o) \cup {y}
  <1> DEFINE p == Append(o, y)
  <1>1. /\ DOMAIN p = 1..(Len(o) + 1) /\ DOMAIN o = 1..Len(o) /\ p[Len(o) + 1] = y
        /\ \A i \in 1..Len(o) : p[i] = o[i]
    OBVIOUS
  <1> HIDE DEF p
  <1>2. Len(o) + 1 \in DOMAIN p /\ \A i \in DOMAIN p : i = Len(o) + 1 \/ i \in DOMAIN o
    BY <1>1
  <1>3. \A i \in DOMAIN o : i \in DOMAIN p /\ p[i] = o[i]
    BY <1>1
  <1>4. \A i \in DOMAIN p : p[i] = y \/ (i \in DOMAIN o /\ p[i] = o[i])
    BY <1>1, <1>2, <1>3
  <1>5. Range(p) = Range(o) \cup {y}
    BY <1>1, <1>2, <1>3, <1>4 DEF Range
  <1> QED BY <1>4, <1>5 DEF p

\* On to another step of the program: what it fetched and swept goes with it.
LEMMA OnwardStep ==
  ASSUME Inv, NEW a \in Agents, NEW r \in RunRecords, r = run[a], Inside(r),
         NEW s \in RunRecords, s.mod = r.mod, s.at \in Targets(StepOf(r)), s.sub = "begin",
         run' = [run EXCEPT ![a] = s], DaemonMoves(a),
         Shape(s), Own(a, s), Accounts(a, s),
         StepOf(r).op = "ensure" =>
            StepOf(r).key \in local' \/ s.at \notin 1..Length[r.mod],
         StepOf(r).op = "reap" /\ StepOf(r).key = "container" => Residue(a)' \subseteq strays'
  PROVE  Inv'
  <1>1. Fits(a, r) /\ r.mod # None
    BY DEF Inv, Inside
  <1>2. Own(a, s)'
    BY DEF Own, DaemonMoves
  <1>3. Fetched(a, s)'
    <2>1. CASE StepOf(r).op = "ensure" => StepOf(r).key \in local'
      BY <1>1, <2>1, FetchedOnward DEF Fits, DaemonMoves
    <2>2. CASE s.at \notin 1..Length[r.mod]
      BY <2>2 DEF Fetched, Inside
    <2> QED BY <2>1, <2>2
  <1>4. Swept(a, s)'
    <2>1. \A x \in Residue(a)' : x \in strays' \/ (x \in Residue(a) /\ x \notin strays)
      <3> SUFFICES ASSUME NEW x \in Residue(a)'
                   PROVE  x \in strays' \/ (x \in Residue(a) /\ x \notin strays)
        OBVIOUS
      <3>1. x[1] = a /\ x[2] < starts[a] /\ x \in DOMAIN daemon' /\ Kind(x) = "container"
        BY DEF Residue, Labelled, DaemonMoves
      <3>2. starts[a] \in Nat
        BY DEF Inv, Typed
      <3>3. x \in DOMAIN daemon
        BY <3>1, <3>2 DEF DaemonMoves
      <3> QED BY <3>1, <3>3 DEF Residue, Labelled, DaemonMoves
    <2> QED BY <1>1, <2>1, SweptOnward DEF Fits
  <1>5. Fits(a, s)'
    <2>1. Shape(s)'
      BY DEF Shape, Inside, StepOf
    <2> QED BY <1>2, <1>3, <1>4, <2>1 DEF Fits
  <1> QED BY <1>1, <1>5, PlaceStep

\* The same, owing what it owed.
LEMMA JumpStep ==
  ASSUME Inv, NEW a \in Agents, Inside(run[a]), NEW t \in Targets(Here(a)), Goes(a, t),
         DaemonMoves(a),
         Here(a).op = "ensure" => Here(a).key \in local' \/ t \notin 1..Length[run[a].mod],
         Here(a).op = "start" => t \in {Here(a).failed, Here(a).cut},
         Here(a).op = "reap" /\ Here(a).key = "container" => Residue(a)' \subseteq strays',
         LeftBehind(a, {})
  PROVE  Inv'
  <1>1. run[a] \in RunRecords
    BY DEF Inv, Typed
  <1>2. PICK r \in RunRecords : r = run[a]
    BY <1>1
  <1>3. Fits(a, r) /\ r.mod # None /\ StepOf(r) = Here(a) /\ Inside(r)
    BY <1>2 DEF Inv, Inside, StepOf, Here
  <1>4. t \in 0..16
    BY <1>2, <1>3, StepIsSound DEF Row, Leads, Targets
  <1>5. [r EXCEPT !.at = t, !.sub = "begin", !.listed = {}] \in RunRecords
    BY <1>4 DEF RunRecords, Subs
  <1>6. PICK s \in RunRecords : s = [r EXCEPT !.at = t, !.sub = "begin", !.listed = {}]
    BY <1>5
  <1>7. s.mod = r.mod /\ s.at = t /\ s.sub = "begin" /\ s.owed = r.owed
    BY <1>6 DEF RunRecords
  <1>8. run' = [run EXCEPT ![a] = s]
    BY <1>2, <1>6 DEF Goes
  <1>9. Shape(s)
    BY <1>3, <1>7, ShapeOnward DEF Fits
  <1>10. Own(a, s)
    BY <1>3, <1>7 DEF Fits, Own
  <1>11. Accounts(a, s)
    BY <1>2, <1>7 DEF Accounts, LeftBehind
  <1> QED BY <1>2, <1>3, <1>7, <1>8, <1>9, <1>10, <1>11, OnwardStep

\* The same, owing one thing more.
LEMMA OwingStep ==
  ASSUME Inv, NEW a \in Agents, Inside(run[a]), NEW t \in Targets(Here(a)),
         NEW y \in Names, y[1] = a, y[2] = starts[a], Owing(a, y, t),
         Here(a).op \in Owers, Kind(y) = "network" => Here(a).op = "network",
         DaemonMoves(a),
         LeftBehind(a, {y})
  PROVE  Inv'
  <1>1. run[a] \in RunRecords
    BY DEF Inv, Typed
  <1>2. PICK r \in RunRecords : r = run[a]
    BY <1>1
  <1>3. Fits(a, r) /\ r.mod # None /\ StepOf(r) = Here(a) /\ Inside(r)
    BY <1>2 DEF Inv, Inside, StepOf, Here
  <1>4. t \in 0..16
    BY <1>2, <1>3, StepIsSound DEF Row, Leads, Targets
  <1>5. r.owed \in Seq(Names) /\ Append(r.owed, y) \in Seq(Names)
    BY DEF RunRecords
  <1>6. [r EXCEPT !.at = t, !.sub = "begin", !.owed = Append(r.owed, y)] \in RunRecords
    BY <1>4, <1>5 DEF RunRecords, Subs
  <1>7. PICK s \in RunRecords : s = [r EXCEPT !.at = t, !.sub = "begin", !.owed = Append(r.owed, y)]
    BY <1>6
  <1>8. s.mod = r.mod /\ s.at = t /\ s.sub = "begin" /\ s.owed = Append(r.owed, y)
    BY <1>7 DEF RunRecords
  <1>9. run' = [run EXCEPT ![a] = s]
    BY <1>2, <1>7 DEF Owing
  <1>10. Shape(s)
    BY <1>3, <1>8, ShapeOwing DEF Fits
  <1>11. /\ \A i \in DOMAIN s.owed : s.owed[i] = y \/ (i \in DOMAIN r.owed /\ s.owed[i] = r.owed[i])
         /\ Range(s.owed) = Range(r.owed) \cup {y}
    BY <1>5, <1>8, OwedOnceMore
  <1>12. Own(a, s)
    BY <1>3, <1>11 DEF Fits, Own
  <1>13. Accounts(a, s)
    BY <1>2, <1>11 DEF Accounts, LeftBehind
  <1>14. StepOf(r).op # "ensure" /\ StepOf(r).op # "reap"
    BY <1>3 DEF Owers
  <1> QED BY <1>2, <1>3, <1>8, <1>9, <1>10, <1>12, <1>13, <1>14, OnwardStep

\* To another place inside the step it is at.
LEMMA InsideStep ==
  ASSUME Inv, NEW a \in Agents, NEW r \in RunRecords, r = run[a], Inside(r),
         NEW s \in RunRecords, s.mod = r.mod, s.at = r.at,
         run' = [run EXCEPT ![a] = s], DaemonMoves(a),
         Shape(s), Own(a, s), Accounts(a, s),
         s.sub = "remove" /\ s.at = SweptAt[s.mod] => Residue(a)' \subseteq s.listed
  PROVE  Inv'
  <1>1. Fits(a, r) /\ r.mod # None
    BY DEF Inv, Inside
  <1>2. Own(a, s)'
    BY DEF Own, DaemonMoves
  <1>3. Fetched(a, s)'
    BY <1>1 DEF Fits, Fetched, Needs, Inside, DaemonMoves
  <1>4. Residue(a)' \subseteq Residue(a)
    <2> SUFFICES ASSUME NEW x \in Residue(a)' PROVE x \in Residue(a)
      OBVIOUS
    <2>1. x[1] = a /\ x[2] < starts[a] /\ x \in DOMAIN daemon' /\ Kind(x) = "container"
      BY DEF Residue, Labelled, DaemonMoves
    <2>2. starts[a] \in Nat
      BY DEF Inv, Typed
    <2>3. x \in DOMAIN daemon
      BY <2>1, <2>2 DEF DaemonMoves
    <2> QED BY <2>1, <2>3 DEF Residue, Labelled
  <1>5. Swept(a, s)'
    BY <1>1, <1>4 DEF Fits, Swept, Inside, DaemonMoves
  <1>6. Fits(a, s)'
    <2>1. Shape(s)'
      BY DEF Shape, Inside, StepOf
    <2> QED BY <1>2, <1>3, <1>5, <2>1 DEF Fits
  <1> QED BY <1>1, <1>6, PlaceStep

\* Into a place where it is about to have, or to be rid of, what it is making.
LEMMA IntoStep ==
  ASSUME Inv, NEW a \in Agents, Inside(run[a]), NEW sub \in {"port", "undo", "running"},
         Into(a, sub), DaemonMoves(a),
         sub = "port" => Here(a).op \in {"launch", "start"},
         sub = "undo" => Here(a).op \in Makers,
         sub = "running" => Here(a).op = "ephemeral",
         LeftBehind(a, {Mine(a)})
  PROVE  Inv'
  <1>1. run[a] \in RunRecords
    BY DEF Inv, Typed
  <1>2. PICK r \in RunRecords : r = run[a]
    BY <1>1
  <1>3. Fits(a, r) /\ r.mod # None /\ StepOf(r) = Here(a) /\ Inside(r)
    BY <1>2 DEF Inv, Inside, StepOf, Here
  <1>4. [r EXCEPT !.sub = sub] \in RunRecords
    BY DEF RunRecords, Subs
  <1>5. PICK s \in RunRecords : s = [r EXCEPT !.sub = sub]
    BY <1>4
  <1>6. s.mod = r.mod /\ s.at = r.at /\ s.sub = sub /\ s.owed = r.owed
    BY <1>5 DEF RunRecords
  <1>7. run' = [run EXCEPT ![a] = s]
    BY <1>2, <1>5 DEF Into
  <1>8. Shape(s)
    BY <1>3, <1>6 DEF Fits, Shape, Inside, StepOf
  <1>9. Own(a, s)
    BY <1>3, <1>6 DEF Fits, Own
  <1>10. Accounts(a, s)
    <2>1. Mine(a) = Name(a, StepOf(s).key)
      BY <1>3, <1>6 DEF Mine, Here, StepOf
    <2> QED BY <1>2, <1>6, <2>1 DEF Accounts, LeftBehind
  <1> QED BY <1>2, <1>3, <1>6, <1>7, <1>8, <1>9, <1>10, InsideStep

-----------------------------------------------------------------------------
(* What a client command does to the daemon                                *)

\* A command about x that succeeded, and one that did not or was killed.
Done(x, state) == daemon' = Became(x, state) /\ UNCHANGED <<late, faults, excused>>
Unsure(x, state, halves) ==
    /\ Fault /\ Asked(x)
    /\ \/ daemon' \in halves /\ UNCHANGED late
       \/ late' = late \cup {<<x, state>>} /\ UNCHANGED daemon

\* x is a's, of the run it is in.
OwnedBy(a, x) == x \in Names /\ x[1] = a /\ x[2] = starts[a]

\* The object the current step names.
LEMMA MineIsOwn ==
  ASSUME Inv, NEW a \in Agents, Inside(run[a]), Here(a).key \in Keys
  PROVE  OwnedBy(a, Mine(a)) /\ Mine(a)[3] = Here(a).key
  BY DEF OwnedBy, Mine, Name, Inv, Typed, Names

\* The daemon once x is in a state.
LEMMA BecameKnown ==
  ASSUME NEW x, NEW state \in States, daemon' = Became(x, state)
  PROVE  /\ DOMAIN daemon' = DOMAIN daemon \cup {x}
         /\ \A y \in DOMAIN daemon \cup {x} :
               daemon'[y] = IF y = x THEN state ELSE daemon[y]
  BY DEF Became, States, Gone

\* A removal takes what may be removed and leaves the rest as it is.
LEMMA WithoutKeeps ==
  ASSUME NEW X
  PROVE  /\ DOMAIN Without(X) = DOMAIN daemon \ {x \in X : x \in DOMAIN daemon /\ Removable(x)}
         /\ \A y \in DOMAIN Without(X) : Without(X)[y] = daemon[y]
  BY DEF Without, Restrict

\* Everything of a's run is excused, owed, or what it is just making.
LEMMA AccountedAt ==
  ASSUME Inv, NEW a \in Agents, NEW x \in DOMAIN daemon, x[1] = a
  PROVE  \/ Unconfirmed(x)
         \/ run[a].mod # None /\ x[2] = starts[a] /\ x \in Range(run[a].owed)
         \/ /\ run[a].mod # None /\ x[2] = starts[a]
            /\ run[a].sub \in {"port", "undo", "running"} /\ x = Mine(a)
  BY DEF Inv, Accounted, Live, Held

\* The daemon pulls images this program knows.
LEMMA PullsGrow ==
  ASSUME Inv, \A y \in DOMAIN daemon' : y \in Names, Pulls
  PROVE  local \subseteq local' /\ local' \subseteq Images
  <1>1. \A y \in Names : Kind(y) = "container" => ImageOf[y[3]] \in Images
    BY DEF Names, Keys, Kind, Images
  <1> QED BY <1>1 DEF Pulls, Inv, Typed

\* A command that makes x, whatever its answer, adds no more than x; if the answer
\* was not a success, x is excused.
LEMMA MakingMoves ==
  ASSUME Inv, NEW a \in Agents, NEW x, OwnedBy(a, x), NEW state \in States, NEW half \in States,
         local' = local \/ Pulls,
         NEW halves, halves \subseteq {daemon, Became(x, half)},
         Done(x, state) \/ Unsure(x, state, halves),
         UNCHANGED <<gone, starts, strays>>
  PROVE  /\ DaemonMoves(a)
         /\ DOMAIN daemon' \subseteq DOMAIN daemon \cup {x}
         /\ Unsure(x, state, halves) => x \in excused'
  <1>1. x \in Names /\ x[1] = a /\ x[2] = starts[a] /\ starts[a] \in Nat
    BY DEF OwnedBy, Inv, Typed
  <1>2. gone' = gone /\ starts' = starts /\ strays' = strays
    OBVIOUS
  <1>3. \/ daemon' = daemon
        \/ \E st \in States : daemon' = Became(x, st)
    BY DEF Done, Unsure
  <1>4. DOMAIN daemon' \subseteq DOMAIN daemon \cup {x}
    BY <1>3, BecameKnown
  <1>5. \A y \in DOMAIN daemon' : y \in Names /\ daemon'[y] \in States
    <2>1. CASE daemon' = daemon
      BY <2>1 DEF Inv, Typed
    <2>2. ASSUME NEW st \in States, daemon' = Became(x, st)
          PROVE  \A y \in DOMAIN daemon' : y \in Names /\ daemon'[y] \in States
      <3>1. DOMAIN daemon' = DOMAIN daemon \cup {x}
        BY <2>2, BecameKnown
      <3>2. \A y \in DOMAIN daemon \cup {x} : daemon'[y] = IF y = x THEN st ELSE daemon[y]
        BY <2>2, BecameKnown
      <3> QED BY <1>1, <3>1, <3>2 DEF Inv, Typed
    <2> QED BY <1>3, <2>1, <2>2
  <1>6. late' = late \/ (late' = late \cup {<<x, state>>} /\ x \in excused')
    BY DEF Done, Unsure, Asked
  <1>7. ASSUME NEW e \in late', e \notin late
        PROVE  /\ e[1] \in Names /\ e[2] \in States \cup {Gone} /\ e[1][2] <= starts[e[1][1]]
               /\ e[2] # Gone => e[1] \in excused'
    <2>1. e[1] = x /\ e[2] = state /\ x \in excused'
      BY <1>6, <1>7
    <2> QED BY <1>1, <2>1
  <1>8. excused \subseteq excused' /\ faults' \in 0..MaxFaults
    <2>1. CASE Done(x, state)
      BY <2>1 DEF Done, Inv, Typed
    <2>2. CASE Unsure(x, state, halves)
      BY <2>2, ContainersAssumption DEF Unsure, Asked, Fault, Inv, Typed
    <2> QED BY <2>1, <2>2
  <1>9. DaemonMoves(a)
    <2>1. local \subseteq local' /\ local' \subseteq Images
      BY <1>5, PullsGrow DEF Inv, Typed
    <2>2. gone' \subseteq Agents \X Images
      BY <1>2 DEF Inv, Typed
    <2>3. \A b \in Agents : \A image : AtHand(b, image) => AtHand(b, image)'
      BY <1>2, <2>1 DEF AtHand
    <2>4. \A y \in DOMAIN daemon' : y \in DOMAIN daemon \/ (y[1] = a /\ y[2] = starts[a])
      BY <1>1, <1>4
    <2> QED BY <1>2, <1>5, <1>7, <1>8, <2>1, <2>2, <2>3, <2>4 DEF DaemonMoves
  <1>10. Unsure(x, state, halves) => x \in excused'
    BY DEF Unsure, Asked
  <1> QED BY <1>4, <1>9, <1>10

\* A command that removes x, whatever its answer, adds nothing; x stays only if it
\* may not be removed or is excused.
LEMMA RemovingMoves ==
  ASSUME Inv, NEW a \in Agents, NEW x, OwnedBy(a, x),
         Done(x, Gone) \/ Unsure(x, Gone, {daemon, Without({x})}),
         UNCHANGED <<local, gone, starts, strays>>
  PROVE  /\ DaemonMoves(a)
         /\ DOMAIN daemon' \subseteq DOMAIN daemon
         /\ x \in DOMAIN daemon' => ~Removable(x) \/ x \in excused'
  <1>1. x \in Names /\ x[1] = a /\ x[2] = starts[a] /\ starts[a] \in Nat
    BY DEF OwnedBy, Inv, Typed
  <1>2. local' = local /\ gone' = gone /\ starts' = starts /\ strays' = strays
    OBVIOUS
  <1>3. daemon' = daemon \/ daemon' = Without({x})
    BY DEF Done, Unsure, Became
  <1>4. DOMAIN daemon' \subseteq DOMAIN daemon /\ \A y \in DOMAIN daemon' : daemon'[y] = daemon[y]
    BY <1>3, WithoutKeeps
  <1>5. late' = late \/ late' = late \cup {<<x, Gone>>}
    BY DEF Done, Unsure
  <1>6. ASSUME NEW e \in late', e \notin late
        PROVE  e[1] \in Names /\ e[2] = Gone /\ e[1][2] <= starts[e[1][1]]
    <2>1. e[1] = x /\ e[2] = Gone
      BY <1>5, <1>6
    <2> QED BY <1>1, <2>1
  <1>7. excused \subseteq excused' /\ faults' \in 0..MaxFaults
    <2>1. CASE Done(x, Gone)
      BY <2>1 DEF Done, Inv, Typed
    <2>2. CASE Unsure(x, Gone, {daemon, Without({x})})
      BY <2>2, ContainersAssumption DEF Unsure, Asked, Fault, Inv, Typed
    <2> QED BY <2>1, <2>2
  <1>8. DaemonMoves(a)
    <2>1. /\ local \subseteq Images /\ gone \subseteq Agents \X Images
          /\ \A b \in Agents : \A image : AtHand(b, image) => AtHand(b, image)'
      BY <1>2 DEF AtHand, Inv, Typed
    <2>2. \A y \in DOMAIN daemon' : y \in Names /\ daemon'[y] \in States
      BY <1>4 DEF Inv, Typed
    <2> QED BY <1>2, <1>4, <1>6, <1>7, <2>1, <2>2 DEF DaemonMoves
  <1>9. x \in DOMAIN daemon' => ~Removable(x) \/ x \in excused'
    <2>1. CASE Done(x, Gone)
      BY <2>1, WithoutKeeps DEF Done, Became
    <2>2. CASE Unsure(x, Gone, {daemon, Without({x})})
      BY <2>2 DEF Unsure, Asked
    <2> QED BY <2>1, <2>2
  <1> QED BY <1>4, <1>8, <1>9

\* A step that adds nothing to the daemon, and leaves only removals to come.
LEMMA ShrinkingMoves ==
  ASSUME Inv, NEW a \in Agents,
         \A y \in DOMAIN daemon' : y \in DOMAIN daemon /\ daemon'[y] \in States,
         \A e \in late' : \/ e \in late
                          \/ e[1] \in Names /\ e[2] = Gone /\ e[1][2] <= starts[e[1][1]],
         local' \subseteq Images, gone' \subseteq Agents \X Images,
         \A b \in Agents : \A image : AtHand(b, image) => AtHand(b, image)',
         excused \subseteq excused', strays \subseteq strays',
         faults' = faults \/ Fault, starts' = starts
  PROVE  DaemonMoves(a)
  <1>1. faults' \in 0..MaxFaults
    BY ContainersAssumption DEF Fault, Inv, Typed
  <1>2. \A y \in DOMAIN daemon' : y \in Names
    BY DEF Inv, Typed
  <1> QED BY <1>1, <1>2 DEF DaemonMoves

\* The same where no image comes or goes.
LEMMA QuietMoves ==
  ASSUME Inv, NEW a \in Agents, UNCHANGED <<local, gone>>,
         \A y \in DOMAIN daemon' : y \in DOMAIN daemon /\ daemon'[y] \in States,
         \A e \in late' : \/ e \in late
                          \/ e[1] \in Names /\ e[2] = Gone /\ e[1][2] <= starts[e[1][1]],
         excused \subseteq excused', strays \subseteq strays',
         faults' = faults \/ Fault, starts' = starts
  PROVE  DaemonMoves(a)
  <1>1. /\ local' \subseteq Images /\ gone' \subseteq Agents \X Images
        /\ \A b \in Agents : \A image : AtHand(b, image) => AtHand(b, image)'
    BY DEF AtHand, Inv, Typed
  <1> QED BY <1>1, ShrinkingMoves

\* What is not new was accounted for, and is.
LEMMA LeavesBehind ==
  ASSUME Inv, NEW a \in Agents, DaemonMoves(a), NEW X,
         \A y \in DOMAIN daemon' :
            \/ y \in X \/ Unconfirmed(y)'
            \/ y \in DOMAIN daemon /\ (y = Mine(a) => run[a].sub \notin {"port", "undo", "running"})
  PROVE  LeftBehind(a, X)
  <1> SUFFICES ASSUME NEW x \in DOMAIN daemon', x[1] = a, x[2] = starts[a]
               PROVE  Unconfirmed(x)' \/ x \in Range(run[a].owed) \/ x \in X
    BY DEF LeftBehind
  <1>1. CASE x \notin DOMAIN daemon
    BY <1>1
  <1>2. CASE x \in DOMAIN daemon
    <2>1. Unconfirmed(x) => Unconfirmed(x)'
      BY DEF Unconfirmed, DaemonMoves
    <2>2. \/ Unconfirmed(x)
          \/ x \in Range(run[a].owed)
          \/ run[a].sub \in {"port", "undo", "running"} /\ x = Mine(a)
      BY <1>2, AccountedAt
    <2> QED BY <2>1, <2>2
  <1> QED BY <1>1, <1>2

-----------------------------------------------------------------------------
(* The steps of an agent                                                   *)

\* Where an agent is when it is at an operation of its program.
LEMMA AtOp ==
  ASSUME Inv, NEW a \in Agents, NEW op, NEW sub, Op(a, op, sub)
  PROVE  /\ run[a].mod # None /\ run[a].sub = sub /\ Inside(run[a])
         /\ StepOf(run[a]) = Here(a) /\ Here(a).op = op
         /\ Row(run[a].mod, run[a].at, Here(a)) /\ Fits(a, run[a])
         /\ run[a] \in RunRecords /\ run[a].mod \in ModuleNames
  <1>1. run[a] \in RunRecords /\ run[a].mod # None
    BY DEF Op, Inv, Typed
  <1>2. run[a].mod \in ModuleNames
    BY <1>1 DEF RunRecords
  <1>3. DOMAIN Program[run[a].mod] = 1..Length[run[a].mod]
    BY <1>2, ProgramsAreSound DEF Sound
  <1>4. Inside(run[a])
    BY <1>1, <1>3 DEF Op, Inside
  <1>5. StepOf(run[a]) = Here(a)
    BY DEF StepOf, Here
  <1>6. Row(run[a].mod, run[a].at, Here(a))
    BY <1>1, <1>4, <1>5, StepIsSound
  <1>7. Fits(a, run[a])
    BY DEF Inv
  <1> QED BY <1>1, <1>2, <1>4, <1>5, <1>6, <1>7 DEF Op

\* A runtime is found, or the module aborts.
LEMMA DiscoverStep ==
  ASSUME Inv, NEW a \in Agents, Discover(a)
  PROVE  Inv'
  <1>1. Op(a, "discover", "begin") /\ UNCHANGED <<daemon, local, gone, late, starts, excused, strays>>
    BY DEF Discover
  <1>2. DaemonMoves(a)
    <2>1. faults' = faults \/ Fault
      BY DEF Discover
    <2> QED BY <1>1, <2>1, QuietMoves DEF Inv, Typed
  <1>3. LeftBehind(a, {})
    BY <1>1, <1>2, AtOp, LeavesBehind
  <1>4. \E t \in Targets(Here(a)) : Goes(a, t)
    BY <1>1, AtOp DEF Discover, Targets, Row
  <1> QED BY <1>1, <1>2, <1>3, <1>4, AtOp, JumpStep

\* An image is on the host when the program goes on past its fetch.
LEMMA EnsureStep ==
  ASSUME Inv, NEW a \in Agents, EnsureImagePresent(a)
  PROVE  Inv'
  <1>1. Op(a, "ensure", "begin") /\ UNCHANGED <<daemon, late, starts, excused, strays>>
    BY DEF EnsureImagePresent
  <1>2. Here(a).key \in Images
    BY <1>1, AtOp DEF Row
  <1>3. \/ /\ local' = local \cup {Here(a).key} /\ gone' = gone \ {<<a, Here(a).key>>}
           /\ faults' = faults \/ Fault
           /\ Goes(a, Here(a).ok) \/ Goes(a, Here(a).failed)
        \/ local' = local /\ gone' = gone /\ Fault /\ Goes(a, Here(a).failed)
    BY DEF EnsureImagePresent, Fetches
  <1>4. DaemonMoves(a)
    <2>1. local' \subseteq Images /\ gone' \subseteq Agents \X Images
      BY <1>2, <1>3 DEF Inv, Typed
    <2>2. \A b \in Agents : \A image : AtHand(b, image) => AtHand(b, image)'
      BY <1>3 DEF AtHand
    <2>3. faults' = faults \/ Fault
      BY <1>3
    <2> QED BY <1>1, <2>1, <2>2, <2>3, ShrinkingMoves DEF Inv, Typed
  <1>5. LeftBehind(a, {})
    BY <1>1, <1>4, AtOp, LeavesBehind
  <1>6. PICK t \in Targets(Here(a)) :
            Goes(a, t) /\ (Here(a).key \in local' \/ t \notin 1..Length[run[a].mod])
    BY <1>1, <1>3, AtOp DEF Targets, Row
  <1> QED BY <1>1, <1>4, <1>5, <1>6, AtOp, JumpStep

\* Writing the image out touches nothing of the daemon.
LEMMA SaveStep ==
  ASSUME Inv, NEW a \in Agents, SaveImage(a)
  PROVE  Inv'
  <1>1. Op(a, "save", "begin") /\ UNCHANGED <<daemon, local, gone, late, starts, excused, strays>>
    BY DEF SaveImage
  <1>2. DaemonMoves(a)
    <2>1. faults' = faults \/ Fault
      BY DEF SaveImage
    <2> QED BY <1>1, <2>1, QuietMoves DEF Inv, Typed
  <1>3. LeftBehind(a, {})
    BY <1>1, <1>2, AtOp, LeavesBehind
  <1>4. \E t \in Targets(Here(a)) : Goes(a, t)
    BY DEF SaveImage, Targets
  <1> QED BY <1>1, <1>2, <1>3, <1>4, AtOp, JumpStep

\* Neither do the requests of the measurement,
LEMMA ExecStep ==
  ASSUME Inv, NEW a \in Agents, Exec(a)
  PROVE  Inv'
  <1>1. PICK op \in {"exec", "serve"} : Op(a, op, "begin")
    BY DEF Exec
  <1>2. UNCHANGED <<daemon, local, gone, late, starts, excused, strays>>
    BY DEF Exec
  <1>3. DaemonMoves(a)
    <2>1. faults' = faults \/ Fault
      BY DEF Exec
    <2> QED BY <1>2, <2>1, QuietMoves DEF Inv, Typed
  <1>4. LeftBehind(a, {})
    BY <1>1, <1>2, <1>3, AtOp, LeavesBehind
  <1>5. \E t \in Targets(Here(a)) : Goes(a, t)
    BY DEF Exec, Targets
  <1> QED BY <1>1, <1>3, <1>4, <1>5, AtOp, JumpStep

\* nor the polls,
LEMMA PollStep ==
  ASSUME Inv, NEW a \in Agents, PollHealth(a)
  PROVE  Inv'
  <1>1. /\ Op(a, "poll", "begin") /\ Goes(a, Here(a).ok)
        /\ UNCHANGED <<daemon, local, gone, late, starts, faults, excused, strays>>
    BY DEF PollHealth
  <1>2. DaemonMoves(a)
    BY <1>1, QuietMoves DEF Inv, Typed
  <1>3. LeftBehind(a, {})
    BY <1>1, <1>2, AtOp, LeavesBehind
  <1>4. Here(a).ok \in Targets(Here(a))
    BY DEF Targets
  <1> QED BY <1>1, <1>2, <1>3, <1>4, AtOp, JumpStep

\* nor the end of a wait.
LEMMA ReadyStep ==
  ASSUME Inv, NEW a \in Agents, Ready(a)
  PROVE  Inv'
  <1>1. /\ Op(a, "launch", "wait") /\ Goes(a, Here(a).ok)
        /\ UNCHANGED <<daemon, local, gone, late, starts, faults, excused, strays>>
    BY DEF Ready
  <1>2. DaemonMoves(a)
    BY <1>1, QuietMoves DEF Inv, Typed
  <1>3. LeftBehind(a, {})
    BY <1>1, <1>2, AtOp, LeavesBehind
  <1>4. Here(a).ok \in Targets(Here(a))
    BY DEF Targets
  <1> QED BY <1>1, <1>2, <1>3, <1>4, AtOp, JumpStep

\* A wait that fails goes to undo what it waited for, which is owed as well.
LEMMA WaitFailsStep ==
  ASSUME Inv, NEW a \in Agents, WaitFails(a)
  PROVE  Inv'
  <1>1. /\ Op(a, "launch", "wait") /\ Into(a, "undo")
        /\ UNCHANGED <<daemon, local, gone, late, starts, faults, excused, strays>>
    BY DEF WaitFails
  <1>2. DaemonMoves(a)
    BY <1>1, QuietMoves DEF Inv, Typed
  <1>3. LeftBehind(a, {Mine(a)})
    BY <1>1, <1>2, AtOp, LeavesBehind
  <1> QED BY <1>1, <1>2, <1>3, AtOp, IntoStep DEF Makers

\* Without a published port the container is undone and was never owed.
LEMMA NoPortStep ==
  ASSUME Inv, NEW a \in Agents, NoPort(a)
  PROVE  Inv'
  <1>1. PICK op \in {"launch", "start"} : Op(a, op, "port")
    BY DEF NoPort
  <1>2. Into(a, "undo") /\ UNCHANGED <<daemon, local, gone, late, starts, excused, strays>>
    BY DEF NoPort
  <1>3. DaemonMoves(a)
    <2>1. faults' = faults \/ Fault
      BY DEF NoPort
    <2> QED BY <1>2, <2>1, QuietMoves DEF Inv, Typed
  <1>4. LeftBehind(a, {Mine(a)})
    BY <1>1, <1>2, <1>3, AtOp, LeavesBehind
  <1> QED BY <1>1, <1>2, <1>3, <1>4, AtOp, IntoStep DEF Makers

\* What an agent is about to run is its own.
LEMMA MakerIsReady ==
  ASSUME Inv, NEW a \in Agents, Inside(run[a]), Here(a).op \in Makers
  PROVE  OwnedBy(a, Mine(a)) /\ Kind(Mine(a)) = "container"
  <1>1. StepOf(run[a]) = Here(a) /\ run[a] \in RunRecords
    BY DEF StepOf, Here, Inv, Typed
  <1>2. Here(a).key \in DOMAIN ImageOf
    BY <1>1, StepIsSound DEF Row
  <1>3. OwnedBy(a, Mine(a)) /\ Mine(a)[3] = Here(a).key
    BY <1>2, MineIsOwn DEF Keys
  <1> QED BY <1>2, <1>3 DEF Kind, ImageOf

\* Its image is at hand: the row of the step is past the fetch.
LEMMA MakerHasItsImage ==
  ASSUME Inv, NEW a \in Agents, AboutToRun(a)
  PROVE  AtHand(a, ImageOf[Here(a).key])
  <1>1. PICK op \in Makers : Op(a, op, "begin")
    BY DEF AboutToRun
  <1>2. PICK r \in RunRecords : r = run[a]
    BY <1>1, AtOp
  <1>3. /\ Inside(r) /\ StepOf(r) = Here(a) /\ Here(a).op \in Makers
        /\ Row(r.mod, r.at, Here(a)) /\ Fits(a, r)
    BY <1>1, <1>2, AtOp
  <1>4. r.at \in DOMAIN Program[r.mod] /\ r.at >= r.at
    <2>1. r.at \in Int
      BY DEF RunRecords
    <2>2. r.at \in DOMAIN Program[r.mod]
      BY <1>3, StepIsSound DEF Inside
    <2> QED BY <2>1, <2>2
  <1>5. Needs(r, ImageOf[Here(a).key])
    BY <1>3, <1>4 DEF Needs, Inside, StepOf
  <1> QED BY <1>3, <1>5 DEF Fits, Fetched, Row

\* A container that runs is being made; one that may is excused.
LEMMA RunContainerStep ==
  ASSUME Inv, NEW a \in Agents, RunContainer(a)
  PROVE  Inv'
  <1>1. PICK op \in {"launch", "start"} : Op(a, op, "begin")
    BY DEF RunContainer
  <1>2. Inside(run[a]) /\ Here(a).op = op /\ run[a].sub = "begin"
    BY <1>1, AtOp
  <1>3. PICK z : z = Mine(a)
    OBVIOUS
  <1>4. OwnedBy(a, z) /\ Kind(z) = "container"
    BY <1>2, <1>3, MakerIsReady DEF Makers
  <1> DEFINE halves == {daemon, Became(z, "created")}
  <1>5. Pulls /\ UNCHANGED <<gone, starts, strays>>
    BY DEF RunContainer
  <1>6. \/ Into(a, "port") /\ Done(z, "starting")
        \/ (Goes(a, Here(a).failed) \/ Goes(a, Here(a).cut)) /\ Unsure(z, "starting", halves)
    BY <1>3 DEF RunContainer, Command, Done, Unsure
  <1>7. /\ DaemonMoves(a)
        /\ DOMAIN daemon' \subseteq DOMAIN daemon \cup {z}
        /\ Unsure(z, "starting", halves) => z \in excused'
    BY <1>4, <1>5, <1>6, MakingMoves DEF States
  <1>8. CASE Into(a, "port")
    <2>1. LeftBehind(a, {z})
      BY <1>2, <1>7, LeavesBehind
    <2> QED BY <1>2, <1>3, <1>7, <1>8, <2>1, IntoStep
  <1>9. ASSUME NEW t \in {Here(a).failed, Here(a).cut}, Goes(a, t), Unsure(z, "starting", halves)
        PROVE  Inv'
    <2>1. Unconfirmed(z)'
      BY <1>7, <1>9 DEF Unconfirmed
    <2>2. LeftBehind(a, {})
      BY <1>2, <1>7, <2>1, LeavesBehind
    <2> QED BY <1>2, <1>7, <1>9, <2>2, JumpStep DEF Targets
  <1> QED BY <1>6, <1>8, <1>9

\* What holds the name of this run was already excused.
LEMMA NameIsTakenStep ==
  ASSUME Inv, NEW a \in Agents, NameIsTaken(a)
  PROVE  Inv'
  <1>1. PICK op \in Makers : Op(a, op, "begin")
    BY DEF NameIsTaken, Makers
  <1>2. Inside(run[a]) /\ Here(a).op = op /\ run[a].sub = "begin"
    BY <1>1, AtOp
  <1>3. UNCHANGED <<daemon, local, gone, late, starts, faults, excused, strays>>
    BY DEF NameIsTaken
  <1>4. DaemonMoves(a)
    BY <1>3, QuietMoves DEF Inv, Typed
  <1>5. LeftBehind(a, {}) /\ LeftBehind(a, {Mine(a)})
    BY <1>2, <1>3, <1>4, LeavesBehind
  <1>6. CASE Into(a, "undo")
    BY <1>2, <1>4, <1>5, <1>6, IntoStep
  <1>7. CASE Goes(a, Here(a).failed)
    BY <1>2, <1>4, <1>5, <1>7, JumpStep DEF Targets, Makers
  <1> QED BY <1>6, <1>7 DEF NameIsTaken

\* The same for a one-shot container, which is undone on failure,
LEMMA EphemeralStartsStep ==
  ASSUME Inv, NEW a \in Agents, EphemeralStarts(a)
  PROVE  Inv'
  <1>1. Op(a, "ephemeral", "begin") /\ Pulls /\ UNCHANGED <<gone, starts, strays>>
    BY DEF EphemeralStarts
  <1>2. Inside(run[a]) /\ Here(a).op = "ephemeral" /\ run[a].sub = "begin"
    BY <1>1, AtOp
  <1>3. PICK z : z = Mine(a)
    OBVIOUS
  <1>4. OwnedBy(a, z) /\ Kind(z) = "container"
    BY <1>2, <1>3, MakerIsReady DEF Makers
  <1> DEFINE halves == {daemon, Became(z, "created")}
  <1>5. \/ Into(a, "running") /\ Done(z, "running")
        \/ (Into(a, "undo") \/ Goes(a, Here(a).cut)) /\ Unsure(z, "running", halves)
    BY <1>3 DEF EphemeralStarts, Command, Done, Unsure
  <1>6. /\ DaemonMoves(a)
        /\ DOMAIN daemon' \subseteq DOMAIN daemon \cup {z}
        /\ Unsure(z, "running", halves) => z \in excused'
    BY <1>1, <1>4, <1>5, MakingMoves DEF States
  <1>7. LeftBehind(a, {z})
    BY <1>2, <1>6, LeavesBehind
  <1>8. CASE Into(a, "running")
    BY <1>2, <1>3, <1>6, <1>7, <1>8, IntoStep
  <1>9. CASE Into(a, "undo")
    BY <1>2, <1>3, <1>6, <1>7, <1>9, IntoStep DEF Makers
  <1>10. ASSUME Goes(a, Here(a).cut), Unsure(z, "running", halves)
         PROVE  Inv'
    <2>1. Unconfirmed(z)'
      BY <1>6, <1>10 DEF Unconfirmed
    <2>2. LeftBehind(a, {})
      BY <1>2, <1>6, <2>1, LeavesBehind
    <2> QED BY <1>2, <1>6, <1>10, <2>2, JumpStep DEF Targets
  <1> QED BY <1>5, <1>8, <1>9, <1>10

\* and is gone, excused, or about to be undone when its command ends.
LEMMA EphemeralEndsStep ==
  ASSUME Inv, NEW a \in Agents, EphemeralEnds(a)
  PROVE  Inv'
  <1>1. Op(a, "ephemeral", "running") /\ UNCHANGED <<local, gone, late, starts, strays>>
    BY DEF EphemeralEnds
  <1>2. Inside(run[a]) /\ Here(a).op = "ephemeral"
    BY <1>1, AtOp
  <1>3. PICK z : z = Mine(a)
    OBVIOUS
  <1>4. OwnedBy(a, z) /\ Kind(z) = "container"
    BY <1>2, <1>3, MakerIsReady DEF Makers
  <1>5. \/ Goes(a, Here(a).ok) /\ daemon' = Without({z}) /\ excused' = excused /\ faults' = faults
        \/ Into(a, "undo") /\ daemon' = daemon /\ excused' = excused /\ faults' = faults
        \/ /\ Into(a, "undo") /\ z \in DOMAIN daemon /\ Fault /\ excused' = excused
           /\ daemon' \in {Without({z}), Became(z, "exited")}
        \/ Goes(a, Here(a).cut) /\ Fault /\ daemon' = daemon /\ excused' = excused \cup {z}
    BY <1>3 DEF EphemeralEnds, Running, OneShotLeft, ServiceLeft, Asked
  <1>6. DaemonMoves(a) /\ DOMAIN daemon' \subseteq DOMAIN daemon
    <2>1. \A y \in DOMAIN daemon : daemon[y] \in States
      BY DEF Inv, Typed
    <2>2. \A y \in DOMAIN daemon' : y \in DOMAIN daemon /\ daemon'[y] \in States
      <3>1. CASE daemon' = daemon \/ daemon' = Without({z})
        BY <2>1, <3>1, WithoutKeeps
      <3>2. CASE z \in DOMAIN daemon /\ daemon' = Became(z, "exited")
        BY <2>1, <3>2, BecameKnown DEF States
      <3> QED BY <1>5, <3>1, <3>2
    <2>3. faults' = faults \/ Fault
      BY <1>5
    <2>4. DaemonMoves(a)
      BY <1>1, <1>5, <2>2, <2>3, QuietMoves DEF Inv, Typed
    <2> QED BY <2>2, <2>4
  <1>7. ASSUME Into(a, "undo")
        PROVE  Inv'
    <2>1. LeftBehind(a, {z})
      BY <1>3, <1>6, LeavesBehind
    <2> QED BY <1>2, <1>3, <1>6, <1>7, <2>1, IntoStep DEF Makers
  <1>8. ASSUME Goes(a, Here(a).ok), daemon' = Without({z})
        PROVE  Inv'
    <2>1. Removable(z)
      BY <1>4 DEF Removable
    <2>2. z \notin DOMAIN daemon' /\ DOMAIN daemon' \subseteq DOMAIN daemon
      BY <1>8, <2>1, WithoutKeeps
    <2>3. LeftBehind(a, {})
      BY <1>3, <1>6, <2>2, LeavesBehind
    <2> QED BY <1>2, <1>6, <1>8, <2>3, JumpStep DEF Targets
  <1>9. ASSUME Goes(a, Here(a).cut), daemon' = daemon, excused' = excused \cup {z}
        PROVE  Inv'
    <2>1. Unconfirmed(z)'
      BY <1>9 DEF Unconfirmed
    <2>2. LeftBehind(a, {})
      BY <1>3, <1>6, <1>9, <2>1, LeavesBehind
    <2> QED BY <1>2, <1>6, <1>9, <2>2, JumpStep DEF Targets
  <1> QED BY <1>5, <1>7, <1>8, <1>9

\* The error path of a launch: what it was making is gone, or excused.
LEMMA UndoStep ==
  ASSUME Inv, NEW a \in Agents, Undo(a)
  PROVE  Inv'
  <1>1. run[a].mod # None /\ run[a].sub = "undo" /\ UNCHANGED <<local, gone, starts, strays>>
    BY DEF Undo
  <1>2. Inside(run[a]) /\ Here(a).op \in Makers
    BY <1>1 DEF Inv, Fits, Shape, StepOf, Here
  <1>3. PICK z : z = Mine(a)
    OBVIOUS
  <1>4. OwnedBy(a, z) /\ Kind(z) = "container"
    BY <1>2, <1>3, MakerIsReady
  <1>5. /\ Goes(a, Here(a).failed)
        /\ Done(z, Gone) \/ Unsure(z, Gone, {daemon, Without({z})})
    BY <1>3 DEF Undo, Removes, Command, Done, Unsure
  <1>6. /\ DaemonMoves(a) /\ DOMAIN daemon' \subseteq DOMAIN daemon
        /\ z \in DOMAIN daemon' => z \in excused'
    BY <1>1, <1>4, <1>5, RemovingMoves DEF Removable
  <1>7. z \in DOMAIN daemon' => Unconfirmed(z)'
    BY <1>6 DEF Unconfirmed
  <1>8. LeftBehind(a, {})
    BY <1>3, <1>6, <1>7, LeavesBehind
  <1> QED BY <1>2, <1>5, <1>6, <1>8, JumpStep DEF Targets, Makers

\* The image that is removed stays owed.
LEMMA RemoveImageStep ==
  ASSUME Inv, NEW a \in Agents, RemoveImage(a)
  PROVE  Inv'
  <1>1. Op(a, "rmi", "begin") /\ UNCHANGED <<local, gone, starts, strays>>
    BY DEF RemoveImage
  <1>2. Inside(run[a]) /\ Here(a).op = "rmi" /\ run[a].sub = "begin" /\ Here(a).key \in Keys
    BY <1>1, AtOp DEF Row, Keys
  <1>3. PICK z : z = Mine(a)
    OBVIOUS
  <1>4. OwnedBy(a, z)
    BY <1>2, <1>3, MineIsOwn
  <1>5. /\ Goes(a, Here(a).ok)
        /\ Done(z, Gone) \/ Unsure(z, Gone, {daemon, Without({z})})
    BY <1>3 DEF RemoveImage, Removes, Command, Done, Unsure
  <1>6. DaemonMoves(a) /\ DOMAIN daemon' \subseteq DOMAIN daemon
    BY <1>1, <1>4, <1>5, RemovingMoves
  <1>7. LeftBehind(a, {})
    BY <1>2, <1>6, LeavesBehind
  <1> QED BY <1>2, <1>5, <1>6, <1>7, JumpStep DEF Targets

\* A network that could not be confirmed is excused, and not owed.
LEMMA CreateNetworkStep ==
  ASSUME Inv, NEW a \in Agents, CreateNetwork(a)
  PROVE  Inv'
  <1>1. Op(a, "network", "begin") /\ UNCHANGED <<local, gone, starts, strays>>
    BY DEF CreateNetwork
  <1>2. /\ Inside(run[a]) /\ Here(a).op = "network" /\ run[a].sub = "begin"
        /\ Here(a).key = "network"
    BY <1>1, AtOp DEF Row
  <1>3. PICK z : z = Mine(a)
    OBVIOUS
  <1>4. OwnedBy(a, z) /\ Kind(z) = "network"
    BY <1>2, <1>3, MineIsOwn DEF Keys, Kind
  <1> DEFINE halves == {daemon, Became(z, "network")}
  <1>5. \/ Owing(a, z, Here(a).ok) /\ Done(z, "network")
        \/ (Goes(a, Here(a).failed) \/ Goes(a, Here(a).cut)) /\ Unsure(z, "network", halves)
    BY <1>3 DEF CreateNetwork, Command, Done, Unsure
  <1>6. /\ DaemonMoves(a)
        /\ DOMAIN daemon' \subseteq DOMAIN daemon \cup {z}
        /\ Unsure(z, "network", halves) => z \in excused'
    <2>1. "network" \in States /\ Kind(z) # "container"
      BY <1>4 DEF States
    <2>2. halves \subseteq {daemon, Became(z, "network")}
      OBVIOUS
    <2>3. Done(z, "network") \/ Unsure(z, "network", halves)
      BY <1>5
    <2> HIDE DEF halves
    <2> QED BY <1>1, <1>4, <2>1, <2>2, <2>3, MakingMoves
  <1>7. CASE Owing(a, z, Here(a).ok)
    <2>1. LeftBehind(a, {z})
      BY <1>2, <1>6, LeavesBehind
    <2> QED BY <1>2, <1>4, <1>6, <1>7, <2>1, OwingStep DEF Targets, Owers, OwnedBy
  <1>8. ASSUME NEW t \in {Here(a).failed, Here(a).cut}, Goes(a, t), Unsure(z, "network", halves)
        PROVE  Inv'
    <2>1. Unconfirmed(z)'
      BY <1>6, <1>8 DEF Unconfirmed
    <2>2. LeftBehind(a, {})
      BY <1>2, <1>6, <2>1, LeavesBehind
    <2> QED BY <1>2, <1>6, <1>8, <2>2, JumpStep DEF Targets
  <1> QED BY <1>5, <1>7, <1>8

\* The tag is owed whatever becomes of the build.
LEMMA BuildStep ==
  ASSUME Inv, NEW a \in Agents, BuildOrLoad(a)
  PROVE  Inv'
  <1>1. Op(a, "build", "begin") /\ UNCHANGED <<local, gone, starts, strays>>
    BY DEF BuildOrLoad
  <1>2. /\ Inside(run[a]) /\ Here(a).op = "build" /\ run[a].sub = "begin"
        /\ Here(a).key = "image"
    BY <1>1, AtOp DEF Row
  <1>3. PICK z : z = Mine(a)
    OBVIOUS
  <1>4. OwnedBy(a, z) /\ Kind(z) = "image"
    BY <1>2, <1>3, MineIsOwn DEF Keys, Kind
  <1>5. /\ \E t \in Targets(Here(a)) : BuildGoes(a, t)
        /\ Done(z, "image") \/ Unsure(z, "image", {daemon})
    BY <1>3 DEF BuildOrLoad, Command, Done, Unsure, Targets
  <1>6. DaemonMoves(a) /\ DOMAIN daemon' \subseteq DOMAIN daemon \cup {z}
    <2>1. PICK halves : halves = {daemon}
      OBVIOUS
    <2>2. halves \subseteq {daemon, Became(z, "image")}
      BY <2>1
    <2>3. "image" \in States
      BY DEF States
    <2>4. Done(z, "image") \/ Unsure(z, "image", halves)
      BY <1>5, <2>1
    <2>5. Kind(z) # "container"
      BY <1>4
    <2> QED BY <1>1, <1>4, <2>2, <2>3, <2>4, <2>5, MakingMoves
  <1>7. PICK t \in Targets(Here(a)) : BuildGoes(a, t)
    BY <1>5
  <1>8. LeftBehind(a, {z})
    BY <1>2, <1>6, LeavesBehind
  <1>9. CASE z \in Range(run[a].owed)
    <2>1. Goes(a, t)
      BY <1>3, <1>7, <1>9 DEF BuildGoes
    <2>2. LeftBehind(a, {})
      BY <1>8, <1>9 DEF LeftBehind
    <2> QED BY <1>2, <1>6, <2>1, <2>2, JumpStep
  <1>10. CASE z \notin Range(run[a].owed)
    <2>1. Owing(a, z, t)
      BY <1>3, <1>7, <1>10 DEF BuildGoes
    <2> QED BY <1>2, <1>4, <1>6, <1>8, <2>1, OwingStep DEF Owers, OwnedBy
  <1> QED BY <1>9, <1>10

\* From here on the module owes the container.
LEMMA PortIsPublishedStep ==
  ASSUME Inv, NEW a \in Agents, PortIsPublished(a)
  PROVE  Inv'
  <1>1. PICK op \in {"launch", "start"} : Op(a, op, "port")
    BY DEF PortIsPublished
  <1>2. UNCHANGED <<daemon, local, gone, late, starts, faults, excused, strays>>
    BY DEF PortIsPublished
  <1>3. Inside(run[a]) /\ Here(a).op = op /\ run[a].sub = "port"
    BY <1>1, AtOp
  <1>4. PICK z : z = Mine(a)
    OBVIOUS
  <1>5. OwnedBy(a, z) /\ Kind(z) = "container"
    BY <1>3, <1>4, MakerIsReady DEF Makers
  <1>6. DaemonMoves(a)
    BY <1>2, QuietMoves DEF Inv, Typed
  <1>7. LeftBehind(a, {z})
    BY <1>2, <1>4, <1>6, LeavesBehind
  <1>8. CASE op = "start"
    <2>1. Owing(a, z, Here(a).ok)
      BY <1>3, <1>4, <1>8 DEF PortIsPublished
    <2> QED BY <1>3, <1>5, <1>6, <1>7, <1>8, <2>1, OwingStep DEF Targets, Owers, OwnedBy
  <1>9. CASE op = "launch"
    <2>1. PICK r \in RunRecords : r = run[a]
      BY <1>1, AtOp
    <2>2. /\ Fits(a, r) /\ StepOf(r) = Here(a) /\ Inside(r)
          /\ Row(r.mod, r.at, Here(a)) /\ r.mod \in ModuleNames
      BY <1>1, <2>1, AtOp
    <2>3. r.owed \in Seq(Names) /\ Append(r.owed, z) \in Seq(Names) /\ z \in Names
      BY <1>5 DEF RunRecords, OwnedBy
    <2>4. [r EXCEPT !.sub = "wait", !.owed = Append(r.owed, z)] \in RunRecords
      BY <2>3 DEF RunRecords, Subs
    <2>5. PICK s \in RunRecords : s = [r EXCEPT !.sub = "wait", !.owed = Append(r.owed, z)]
      BY <2>4
    <2>6. s.mod = r.mod /\ s.at = r.at /\ s.sub = "wait" /\ s.owed = Append(r.owed, z)
      BY <2>5 DEF RunRecords
    <2>7. run' = [run EXCEPT ![a] = s]
      BY <1>3, <1>4, <1>9, <2>1, <2>5 DEF PortIsPublished
    <2>8. /\ \A i \in DOMAIN s.owed : s.owed[i] = z \/ (i \in DOMAIN r.owed /\ s.owed[i] = r.owed[i])
          /\ Range(s.owed) = Range(r.owed) \cup {z}
      BY <2>3, <2>6, OwedOnceMore
    <2>9. Shape(s)
      <3>1. s.mod # None /\ Inside(s) /\ StepOf(s).op = "launch"
        BY <1>3, <1>9, <2>2, <2>6 DEF Inside, StepOf
      <3>2. \A i \in DOMAIN s.owed : Kind(s.owed[i]) = "network" => i = 1
        BY <1>5, <2>2, <2>8 DEF Fits, Shape
      <3>3. s.mod = "wordpress" => s.at \notin 1..NetworkAt
        BY <1>3, <1>9, <2>2, <2>6 DEF Row, Owers
      <3>4. s.owed # <<>>
        BY <2>3, <2>6
      <3> QED BY <2>6, <3>1, <3>2, <3>3, <3>4 DEF Shape
    <2>10. Own(a, s)
      BY <1>5, <2>2, <2>8 DEF Fits, Own, OwnedBy
    <2>11. Accounts(a, s)
      BY <1>7, <2>1, <2>8 DEF Accounts, LeftBehind
    <2> QED BY <1>6, <2>1, <2>2, <2>6, <2>7, <2>9, <2>10, <2>11, InsideStep
  <1> QED BY <1>8, <1>9

\* A sweep lists what there is: all of the residue, if it lists containers.
LEMMA ReapListsStep ==
  ASSUME Inv, NEW a \in Agents, ReapLists(a)
  PROVE  Inv'
  <1>1. Op(a, "reap", "begin") /\ UNCHANGED <<daemon, local, gone, late, starts, excused>>
    BY DEF ReapLists, Listing
  <1>2. PICK listed : listed = Labelled(Here(a).key)
    OBVIOUS
  <1>3. /\ Inside(run[a]) /\ run[a].sub = "begin" /\ Here(a).op = "reap"
        /\ Row(run[a].mod, run[a].at, Here(a))
    BY <1>1, AtOp
  <1>4. \/ Goes(a, Here(a).ok) /\ listed = {} /\ strays' = strays /\ faults' = faults
        \/ /\ run' = [run EXCEPT ![a] = [run[a] EXCEPT !.sub = "remove", !.listed = listed]]
           /\ strays' = strays /\ faults' = faults
        \/ /\ Goes(a, Here(a).failed) \/ Goes(a, Here(a).cut)
           /\ strays' = strays \cup listed /\ Fault
    BY <1>2 DEF ReapLists, Listing
  <1>5. DaemonMoves(a)
    <2>1. strays \subseteq strays' /\ (faults' = faults \/ Fault)
      BY <1>4
    <2> QED BY <1>1, <2>1, QuietMoves DEF Inv, Typed
  <1>6. LeftBehind(a, {})
    BY <1>1, <1>3, <1>5, LeavesBehind
  <1>7. Residue(a)' \subseteq Labelled("container")
    BY <1>1 DEF Residue, Labelled
  <1>8. ASSUME NEW t \in Targets(Here(a)), Goes(a, t),
               listed \subseteq strays'
        PROVE  Inv'
    <2>1. Here(a).key = "container" => Residue(a)' \subseteq strays'
      BY <1>2, <1>7, <1>8
    <2> QED BY <1>3, <1>5, <1>6, <1>8, <2>1, JumpStep
  <1>9. ASSUME run' = [run EXCEPT ![a] = [run[a] EXCEPT !.sub = "remove", !.listed = listed]]
        PROVE  Inv'
    <2>1. PICK r \in RunRecords : r = run[a]
      BY <1>1, AtOp
    <2>2. Fits(a, r) /\ StepOf(r) = Here(a) /\ Inside(r)
      BY <1>1, <2>1, AtOp
    <2>3. listed \subseteq Names
      BY <1>2 DEF Inv, Typed, Labelled
    <2>4. [r EXCEPT !.sub = "remove", !.listed = listed] \in RunRecords
      BY <2>3 DEF RunRecords, Subs
    <2>5. PICK s \in RunRecords : s = [r EXCEPT !.sub = "remove", !.listed = listed]
      BY <2>4
    <2>6. s.mod = r.mod /\ s.at = r.at /\ s.sub = "remove" /\ s.owed = r.owed /\ s.listed = listed
      BY <2>5 DEF RunRecords
    <2>7. run' = [run EXCEPT ![a] = s]
      BY <1>9, <2>1, <2>5
    <2>8. Shape(s)
      BY <1>3, <2>2, <2>6 DEF Fits, Shape, Inside, StepOf
    <2>9. Own(a, s)
      BY <2>2, <2>6 DEF Fits, Own
    <2>10. Accounts(a, s)
      BY <1>6, <2>1, <2>6 DEF Accounts, LeftBehind
    <2>11. s.at = SweptAt[s.mod] => Residue(a)' \subseteq s.listed
      BY <1>2, <1>3, <1>7, <2>1, <2>6 DEF Row
    <2> QED BY <1>5, <2>1, <2>2, <2>6, <2>7, <2>8, <2>9, <2>10, <2>11, InsideStep
  <1> QED BY <1>4, <1>8, <1>9 DEF Targets

\* What was listed and could not be surely taken is known to stray.
LEMMA ReapRemovesStep ==
  ASSUME Inv, NEW a \in Agents, ReapRemoves(a)
  PROVE  Inv'
  <1>1. Op(a, "reap", "remove") /\ UNCHANGED <<local, gone, starts, excused>>
    BY DEF ReapRemoves
  <1>2. /\ Inside(run[a]) /\ run[a].sub = "remove" /\ Here(a).op = "reap"
        /\ Row(run[a].mod, run[a].at, Here(a)) /\ Fits(a, run[a])
    BY <1>1, AtOp
  <1>3. PICK left : left = run[a].listed \cap DOMAIN daemon
    OBVIOUS
  <1>4. \/ /\ daemon' = Without(left) /\ late' = late /\ strays' = strays /\ faults' = faults
           /\ Goes(a, Here(a).ok)
        \/ /\ Fault /\ strays' = strays \cup left
           /\ \E some \in SUBSET left : daemon' = Without(some)
           /\ \/ Goes(a, Here(a).failed) /\ late' = late
              \/ Goes(a, Here(a).cut) /\ late' = late \cup {<<x, Gone>> : x \in left}
    BY <1>3 DEF ReapRemoves
  <1>5. PICK t \in Targets(Here(a)) : Goes(a, t)
    BY <1>4 DEF Targets
  <1>6. \A y \in DOMAIN daemon' : y \in DOMAIN daemon /\ daemon'[y] = daemon[y]
    BY <1>4, WithoutKeeps
  <1>7. DaemonMoves(a)
    <2>1. \A y \in DOMAIN daemon' : y \in DOMAIN daemon /\ daemon'[y] \in States
      BY <1>6 DEF Inv, Typed
    <2>2. ASSUME NEW e \in late', e \notin late
          PROVE  e[1] \in Names /\ e[2] = Gone /\ e[1][2] <= starts[e[1][1]]
      <3>1. PICK x \in left : e = <<x, Gone>>
        BY <1>4, <2>2
      <3>2. e[1] = x /\ e[2] = Gone /\ x \in DOMAIN daemon
        BY <1>3, <3>1
      <3> QED BY <3>2 DEF Inv, Typed, Fresh
    <2>3. strays \subseteq strays' /\ (faults' = faults \/ Fault)
      BY <1>4
    <2> QED BY <1>1, <2>1, <2>2, <2>3, QuietMoves DEF Inv, Typed
  <1>8. LeftBehind(a, {})
    BY <1>2, <1>6, <1>7, LeavesBehind
  <1>9. ASSUME Here(a).key = "container", NEW x \in Residue(a)'
        PROVE  x \in strays'
    <2>1. x \in DOMAIN daemon' /\ Kind(x) = "container" /\ x[1] = a /\ x[2] < starts[a]
      BY <1>1 DEF Residue, Labelled
    <2>2. x \in Residue(a)
      BY <1>6, <2>1 DEF Residue, Labelled
    <2>3. run[a].at = SweptAt[run[a].mod]
      BY <1>2, <1>9 DEF Row
    <2>4. x \in run[a].listed \/ x \in strays
      BY <1>2, <2>2, <2>3 DEF Fits, Swept
    <2>5. CASE x \in strays
      BY <1>4, <2>5
    <2>6. CASE x \in run[a].listed
      <3>1. x \in left
        BY <1>3, <1>6, <2>1, <2>6
      <3>2. Removable(x)
        BY <2>1 DEF Removable
      <3>3. daemon' # Without(left)
        BY <1>6, <2>1, <3>1, <3>2, WithoutKeeps
      <3> QED BY <1>4, <3>1, <3>3
    <2> QED BY <2>4, <2>5, <2>6
  <1> QED BY <1>2, <1>5, <1>7, <1>8, <1>9, JumpStep

\* What is owed last goes.  A network that refuses to has a container on it,
\* which is of the same run and not owed, for the network would not be last.
LEMMA PopStep ==
  ASSUME Inv, NEW a \in Agents, NEW r \in RunRecords, r = run[a], r.mod # None,
         r.sub = "begin", r.owed # <<>>, NEW x, x = Last(r.owed),
         Done(x, Gone) \/ Unsure(x, Gone, {daemon, Without({x})}),
         UNCHANGED <<local, gone, starts, strays>>,
         NEW s \in RunRecords, s.mod = r.mod, s.sub = "begin", s.owed = Front(r.owed),
         run' = [run EXCEPT ![a] = s],
         \/ ~Inside(r) /\ s.at = r.at
         \/ Inside(r) /\ StepOf(r).op = "drop" /\ s.at \in Targets(StepOf(r))
  PROVE  Inv'
  <1>1. Fits(a, r)
    BY DEF Inv
  <1>2. r.owed \in Seq(Names) /\ Len(r.owed) \in Nat \ {0}
    BY DEF RunRecords
  <1>3. Len(r.owed) \in DOMAIN r.owed /\ x = r.owed[Len(r.owed)]
    BY <1>2 DEF Last
  <1>4. OwnedBy(a, x)
    BY <1>1, <1>2, <1>3 DEF Fits, Own, OwnedBy
  <1>5. /\ DaemonMoves(a) /\ DOMAIN daemon' \subseteq DOMAIN daemon
        /\ x \in DOMAIN daemon' => ~Removable(x) \/ x \in excused'
    BY <1>4, RemovingMoves
  <1>6. Shape(s) /\ ~Inside(s)
    BY <1>1, ShapePopped DEF Fits
  <1>7. /\ s.owed \in Seq(Names) /\ DOMAIN s.owed = 1..(Len(r.owed) - 1)
        /\ \A i \in 1..(Len(r.owed) - 1) : i \in DOMAIN r.owed /\ s.owed[i] = r.owed[i]
    BY <1>2 DEF Front
  <1>8. Own(a, s)'
    BY <1>1, <1>7 DEF Fits, Own, DaemonMoves
  <1>9. Fits(a, s)'
    <2>1. Shape(s)'
      BY <1>6 DEF Shape, Inside, StepOf
    <2> QED BY <1>6, <1>8, <2>1 DEF Fits, Fetched, Swept, Inside
  <1>10. \A y : y \in Range(r.owed) => y = x \/ y \in Range(s.owed)
    <2> SUFFICES ASSUME NEW i \in DOMAIN r.owed PROVE r.owed[i] = x \/ r.owed[i] \in Range(s.owed)
      BY DEF Range
    <2>1. i = Len(r.owed) \/ i \in 1..(Len(r.owed) - 1)
      BY <1>2
    <2> QED BY <1>3, <1>7, <2>1 DEF Range
  <1>11. ASSUME ~Removable(x)
         PROVE  Unconfirmed(x)'
    <2>1. PICK y \in DOMAIN daemon : Kind(x) = "network" /\ Kind(y) = "container" /\ SameRun(x, y)
      BY <1>11 DEF Removable, Labelled
    <2>2. Len(r.owed) = 1
      BY <1>1, <1>3, <2>1 DEF Fits, Shape
    <2>3. Range(r.owed) = {x}
      <3>1. DOMAIN r.owed = 1..1
        BY <1>2, <2>2
      <3> QED BY <1>3, <2>2, <3>1 DEF Range
    <2>4. y # x
      BY <2>1
    <2>5. y[1] = a
      BY <1>4, <2>1 DEF OwnedBy, SameRun
    <2>6. Unconfirmed(y)
      BY <2>3, <2>4, <2>5, AccountedAt
    <2>7. y \in excused
      BY <2>1, <2>6 DEF Unconfirmed
    <2> QED BY <1>5, <2>1, <2>7 DEF Unconfirmed, DaemonMoves
  <1>12. Accounts(a, s)
    <2> SUFFICES ASSUME NEW y \in DOMAIN daemon', y[1] = a, y[2] = starts[a]
                 PROVE  Unconfirmed(y)' \/ y \in Range(s.owed)
      BY DEF Accounts
    <2>1. Unconfirmed(y) \/ y \in Range(r.owed)
      BY <1>5, AccountedAt
    <2>2. Unconfirmed(y) => Unconfirmed(y)'
      BY <1>5 DEF Unconfirmed, DaemonMoves
    <2>3. CASE y = x
      <3>1. x \in excused' => Unconfirmed(x)'
        BY DEF Unconfirmed
      <3> QED BY <1>5, <1>11, <2>3, <3>1
    <2> QED BY <1>10, <2>1, <2>2, <2>3
  <1> QED BY <1>5, <1>9, <1>12, PlaceStep

\* The scope of the health sandbox ends,
LEMMA DropHealthStep ==
  ASSUME Inv, NEW a \in Agents, DropHealth(a)
  PROVE  Inv'
  <1>1. Op(a, "drop", "begin") /\ UNCHANGED <<local, gone, starts, strays>>
    BY DEF DropHealth
  <1>2. PICK r \in RunRecords : r = run[a]
    BY <1>1, AtOp
  <1>3. /\ Inside(r) /\ r.sub = "begin" /\ r.mod # None /\ StepOf(r) = Here(a)
        /\ StepOf(r).op = "drop" /\ Fits(a, r) /\ Row(r.mod, r.at, StepOf(r))
    BY <1>1, <1>2, AtOp
  <1>4. r.owed # <<>>
    BY <1>3 DEF Fits, Shape, Row
  <1>5. r.owed \in Seq(Names) /\ Front(r.owed) \in Seq(Names)
    BY <1>4 DEF RunRecords, Front
  <1>6. Here(a).ok \in 0..16
    BY <1>3 DEF Row, Leads
  <1>7. [r EXCEPT !.at = Here(a).ok, !.owed = Front(r.owed)] \in RunRecords
    BY <1>5, <1>6 DEF RunRecords
  <1>8. PICK s \in RunRecords : s = [r EXCEPT !.at = Here(a).ok, !.owed = Front(r.owed)]
    BY <1>7
  <1>9. /\ s.mod = r.mod /\ s.at = StepOf(r).ok /\ s.sub = "begin" /\ s.owed = Front(r.owed)
        /\ s.at \in Targets(StepOf(r))
    BY <1>3, <1>8 DEF RunRecords, Targets
  <1>10. PICK x : x = Last(r.owed)
    OBVIOUS
  <1>11. /\ run' = [run EXCEPT ![a] = s]
         /\ Done(x, Gone) \/ Unsure(x, Gone, {daemon, Without({x})})
    BY <1>2, <1>8, <1>10 DEF DropHealth, Removes, Command, Done, Unsure
  <1> QED BY <1>1, <1>2, <1>3, <1>4, <1>9, <1>10, <1>11, PopStep

\* and so does the module.
LEMMA UnwindStep ==
  ASSUME Inv, NEW a \in Agents, Unwind(a)
  PROVE  Inv'
  <1>1. Over(a) /\ run[a].owed # <<>> /\ UNCHANGED <<local, gone, starts, strays>>
    BY DEF Unwind
  <1>2. PICK r \in RunRecords : r = run[a]
    BY DEF Inv, Typed
  <1>3. r.mod # None /\ r.sub = "begin" /\ r.owed # <<>> /\ r.mod \in ModuleNames
    BY <1>1, <1>2 DEF Over, RunRecords
  <1>4. ~Inside(r)
    BY <1>1, <1>2, <1>3, ProgramsAreSound DEF Over, Inside, Sound
  <1>5. r.owed \in Seq(Names) /\ Front(r.owed) \in Seq(Names)
    BY <1>3 DEF RunRecords, Front
  <1>6. [r EXCEPT !.owed = Front(r.owed)] \in RunRecords
    BY <1>5 DEF RunRecords
  <1>7. PICK s \in RunRecords : s = [r EXCEPT !.owed = Front(r.owed)]
    BY <1>6
  <1>8. s.mod = r.mod /\ s.at = r.at /\ s.sub = "begin" /\ s.owed = Front(r.owed)
    BY <1>3, <1>7 DEF RunRecords
  <1>9. PICK x : x = Last(r.owed)
    OBVIOUS
  <1>10. /\ run' = [run EXCEPT ![a] = s]
         /\ Done(x, Gone) \/ Unsure(x, Gone, {daemon, Without({x})})
    BY <1>2, <1>7, <1>9 DEF Unwind, Removes, Command, Done, Unsure
  <1> QED BY <1>1, <1>2, <1>3, <1>4, <1>8, <1>9, <1>10, PopStep

\* The record of an agent that runs nothing.
LEMMA IdleIsAPlace == Idle \in RunRecords
  <1>1. <<>> \in Seq(Names)
    OBVIOUS
  <1> QED BY <1>1 DEF Idle, RunRecords, Subs

\* No module runs: what is left was accounted for without one.
LEMMA IdleStep ==
  ASSUME Inv, NEW a \in Agents, run' = [run EXCEPT ![a] = Idle], DaemonMoves(a),
         \A x \in DOMAIN daemon' : x[1] = a => Unconfirmed(x)'
  PROVE  Inv'
  <1>1. PICK r \in RunRecords : r = Idle
    BY IdleIsAPlace
  <1>2. r.mod = None /\ r.sub = "begin" /\ r.owed = <<>>
    BY <1>1 DEF Idle
  <1>3. Fits(a, r)'
    <2>1. Shape(r)'
      BY <1>2 DEF Shape, Inside
    <2>2. Own(a, r)'
      BY <1>2 DEF Own
    <2> QED BY <1>2, <2>1, <2>2 DEF Fits, Fetched, Swept, Inside
  <1>4. StandsAt(a, r)
    BY <1>1, <1>3 DEF StandsAt
  <1> QED BY <1>2, <1>4, AgentStep

\* A module returns when it owes nothing.
LEMMA ReturnStep ==
  ASSUME Inv, NEW a \in Agents, Return(a)
  PROVE  Inv'
  <1>1. /\ run[a].sub = "begin" /\ run[a].owed = <<>> /\ run' = [run EXCEPT ![a] = Idle]
        /\ UNCHANGED <<daemon, local, gone, late, starts, faults, excused, strays>>
    BY DEF Return, Over
  <1>2. DaemonMoves(a)
    BY <1>1, QuietMoves DEF Inv, Typed
  <1>3. ASSUME NEW x \in DOMAIN daemon', x[1] = a
        PROVE  Unconfirmed(x)'
    <2>1. x \in DOMAIN daemon
      BY <1>1
    <2>2. Range(run[a].owed) = {}
      BY <1>1 DEF Range
    <2>3. Unconfirmed(x)
      BY <1>1, <1>3, <2>1, <2>2, AccountedAt
    <2> QED BY <1>1, <2>3 DEF Unconfirmed
  <1> QED BY <1>1, <1>2, <1>3, IdleStep

\* A crash excuses whatever the run may have made.
LEMMA CrashStep ==
  ASSUME Inv, NEW a \in Agents, Crash(a)
  PROVE  Inv'
  <1>1. /\ run[a].mod # None /\ Fault /\ run' = [run EXCEPT ![a] = Idle]
        /\ excused' = excused \cup {Name(a, k) : k \in Keys}
        /\ UNCHANGED <<daemon, local, gone, late, starts, strays>>
    BY DEF Crash
  <1>2. DaemonMoves(a)
    BY <1>1, QuietMoves DEF Inv, Typed
  <1>3. ASSUME NEW x \in DOMAIN daemon', x[1] = a
        PROVE  Unconfirmed(x)'
    <2>1. x \in DOMAIN daemon /\ x \in Names
      BY <1>1 DEF Inv, Typed
    <2>2. CASE x[2] = starts[a]
      <3>1. x = Name(a, x[3]) /\ x[3] \in Keys
        BY <1>3, <2>1, <2>2 DEF Name, Names
      <3>2. x \in excused'
        BY <1>1, <3>1
      <3> QED BY <3>2 DEF Unconfirmed
    <2>3. CASE x[2] # starts[a]
      <3>1. Unconfirmed(x)
        BY <1>3, <2>1, <2>3, AccountedAt
      <3> QED BY <1>1, <3>1 DEF Unconfirmed
    <2> QED BY <2>2, <2>3
  <1> QED BY <1>1, <1>2, <1>3, IdleStep

\* Every action of an agent.
LEMMA AgentSteps ==
  ASSUME Inv, NEW a \in Agents, Agent(a) \/ Crash(a)
  PROVE  Inv'
  BY DiscoverStep, EnsureStep, ReapListsStep, ReapRemovesStep, CreateNetworkStep, BuildStep,
     SaveStep, RemoveImageStep, RunContainerStep, NameIsTakenStep, PortIsPublishedStep,
     NoPortStep, ReadyStep, WaitFailsStep, UndoStep, ExecStep, PollStep, DropHealthStep,
     EphemeralStartsStep, EphemeralEndsStep, UnwindStep, ReturnStep, CrashStep
  DEF Agent

-----------------------------------------------------------------------------
(* A module begins                                                         *)

\* The histories forget only what nothing is left of.
LEMMA RememberedKeeps ==
  ASSUME NEW X, NEW x \in X, NEW y \in DOMAIN daemon, SameRun(x, y)
  PROVE  x \in Remembered(X)
  BY DEF Remembered

\* The record of a module that begins.
LEMMA FirstPlace ==
  ASSUME NEW r \in RunRecords, NEW m \in ModuleNames
  PROVE  [r EXCEPT !.mod = m, !.at = 1] \in RunRecords
  <1>1. 1 \in 0..16
    OBVIOUS
  <1> QED BY <1>1 DEF RunRecords

\* A module begins under a new suffix: what its agent left is residue from now on,
\* and every place before the sweep allows that.
LEMMA StartStep ==
  ASSUME Inv, NEW a \in Agents, NEW m \in Modules[a], Start(a, m)
  PROVE  Inv'
  <1>1. /\ run[a].mod = None /\ starts[a] < MaxRuns[a]
        /\ run' = [run EXCEPT ![a] = [Idle EXCEPT !.mod = m, !.at = 1]]
        /\ starts' = [starts EXCEPT ![a] = @ + 1]
        /\ excused' = Remembered(excused) /\ strays' = Remembered(strays)
        /\ gone' = {g \in gone : g[1] # a}
        /\ UNCHANGED <<daemon, local, late, faults>>
    BY DEF Start
  <1>2. run \in [Agents -> RunRecords] /\ starts \in [Agents -> Nat]
    BY DEF Inv, Typed
  <1>3. m \in ModuleNames /\ m # None
    BY ContainersAssumption DEF ModuleNames
  <1>4. [Idle EXCEPT !.mod = m, !.at = 1] \in RunRecords
    <2>1. PICK idle \in RunRecords : idle = Idle
      BY IdleIsAPlace
    <2>2. [idle EXCEPT !.mod = m, !.at = 1] \in RunRecords
      BY <1>3, FirstPlace
    <2> QED BY <2>1, <2>2
  <1>5. PICK s \in RunRecords : s = [Idle EXCEPT !.mod = m, !.at = 1]
    BY <1>4
  <1>6. s.mod = m /\ s.at = 1 /\ s.sub = "begin" /\ s.owed = <<>>
    BY <1>5 DEF Idle
  <1>7. run'[a] = s /\ \A b \in Agents : b # a => run'[b] = run[b] /\ starts'[b] = starts[b]
    BY <1>1, <1>2, <1>5
  <1>8. /\ starts' \in [Agents -> Nat]
        /\ \A b \in Agents : starts[b] <= starts'[b] /\ starts'[b] <= MaxRuns[b]
    BY <1>1, <1>2, ContainersAssumption DEF Inv, Typed
  <1>9. Typed'
    <2>1. run' \in [Agents -> RunRecords]
      BY <1>1, <1>2, <1>4
    <2>2. \A b \in Agents : run'[b].mod \in Modules[b] \cup {None}
      BY <1>6, <1>7 DEF Inv, Typed
    <2> QED BY <1>1, <1>8, <2>1, <2>2 DEF Inv, Typed
  <1>10. Fresh'
    <2>1. \A x \in Names : x[2] <= starts[x[1]] => x[2] <= starts'[x[1]]
      BY <1>2, <1>8 DEF Names
    <2> QED BY <1>1, <2>1 DEF Inv, Typed, Fresh
  <1>11. LateIsExcused'
    <2> SUFFICES ASSUME NEW e \in late, e[2] # Gone PROVE e[1] \in Remembered(excused)
      BY <1>1 DEF LateIsExcused
    <2>1. e[1] \in excused
      BY DEF Inv, LateIsExcused
    <2> QED BY <2>1 DEF Remembered, SameRun
  <1>13. ASSUME NEW x \in DOMAIN daemon, Unconfirmed(x)
         PROVE  Unconfirmed(x)'
    <2>1. CASE x \in excused
      BY <1>1, <2>1, RememberedKeeps DEF Unconfirmed, SameRun
    <2>2. CASE Kind(x) = "network" /\ \E y \in excused : SameRun(x, y)
      <3>1. PICK y \in excused : SameRun(x, y)
        BY <2>2
      <3>2. y \in excused'
        BY <1>1, <3>1, RememberedKeeps DEF SameRun
      <3> QED BY <2>2, <3>1, <3>2 DEF Unconfirmed
    <2> QED BY <1>13, <2>1, <2>2 DEF Unconfirmed
  <1>14. Accounted'
    <2> SUFFICES ASSUME NEW x \in DOMAIN daemon
                 PROVE  Unconfirmed(x)' \/ (Live(x)' /\ Held(x)')
      BY <1>1 DEF Accounted
    <2>1. CASE Unconfirmed(x)
      BY <1>13, <2>1
    <2>2. CASE Live(x) /\ Held(x)
      <3>1. x[1] # a /\ x[1] \in Agents
        BY <1>1, <2>2 DEF Live, Inv, Typed, Names
      <3>2. run'[x[1]] = run[x[1]] /\ starts'[x[1]] = starts[x[1]]
        BY <1>7, <3>1
      <3> QED BY <2>2, <3>2 DEF Live, Held, Mine, Here, Name
    <2> QED BY <2>1, <2>2 DEF Inv, Accounted
  <1>15. ASSUME NEW b \in Agents PROVE Fits(b, run[b])'
    <2>1. CASE b = a
      <3>1. 1 <= SweptAt[m] /\ 1 # SweptAt[m] /\ SweptAt[m] \in Nat /\ HeldFrom[m] \in Nat /\ 1 < HeldFrom[m]
        BY <1>3 DEF ModuleNames, SweptAt, HeldFrom
      <3>2. Shape(s)'
        BY <1>3, <1>6, <3>1 DEF Shape
      <3>3. Own(a, s)'
        BY <1>6 DEF Own
      <3>4. \A image \in Uses[m] : EnsuredAt[image] \in Nat /\ ~(1 > EnsuredAt[image])
        BY <1>3 DEF ModuleNames, Uses, EnsuredAt
      <3>5. Fetched(a, s)'
        BY <1>6, <3>4 DEF Fetched
      <3>6. Swept(a, s)'
        BY <1>6, <3>1 DEF Swept
      <3>7. Fits(a, s)'
        BY <3>2, <3>3, <3>5, <3>6 DEF Fits
      <3> QED BY <1>7, <2>1, <3>7, FitsWhereItIs
    <2>2. CASE b # a
      <3>1. PICK r : r = run[b]
        OBVIOUS
      <3>2. run'[b] = r /\ Fits(b, r) /\ starts'[b] = starts[b]
        BY <1>7, <2>2, <3>1 DEF Inv
      <3>3. Shape(r)'
        BY <3>2 DEF Fits, Shape, Inside, StepOf
      <3>4. Own(b, r)'
        BY <3>2 DEF Fits, Own
      <3>5. Fetched(b, r)'
        <4>1. \A image : <<b, image>> \in gone => <<b, image>> \in gone'
          BY <1>1, <2>2
        <4> QED BY <1>1, <3>2, <4>1 DEF Fits, Fetched, Needs, AtHand, Inside
      <3>6. Residue(b)' = Residue(b)
        BY <1>1, <3>2 DEF Residue, Labelled
      <3>7. \A x \in Residue(b) : x \in strays => x \in strays'
        BY <1>1, RememberedKeeps DEF Residue, Labelled, SameRun
      <3>8. Swept(b, r)'
        BY <3>2, <3>6, <3>7 DEF Fits, Swept, Inside
      <3>9. Fits(b, r)'
        BY <3>3, <3>4, <3>5, <3>8 DEF Fits
      <3> QED BY <3>2, <3>9, FitsWhereItIs
    <2> QED BY <2>1, <2>2
  <1> QED BY <1>9, <1>10, <1>11, <1>14, <1>15 DEF Inv

-----------------------------------------------------------------------------
(* The daemon by itself                                                    *)

\* A step nobody of this program takes: what it adds was asked for, and known
\* to stray.
LEMMA DaemonStep ==
  ASSUME Inv, UNCHANGED <<run, starts, excused>>,
         local' \subseteq Images, gone' \subseteq Agents \X Images,
         \A b \in Agents : \A image :
            Needs(run[b], image) /\ AtHand(b, image) => AtHand(b, image)',
         late' \subseteq late, strays \subseteq strays', faults' = faults \/ Fault,
         \A y \in DOMAIN daemon' : y \in Names /\ daemon'[y] \in States,
         \A y \in DOMAIN daemon' :
            \/ y \in DOMAIN daemon
            \/ y \in excused /\ y \in strays' /\ y[2] <= starts[y[1]]
  PROVE  Inv'
  <1>1. Typed'
    <2>1. faults' \in 0..MaxFaults
      BY ContainersAssumption DEF Fault, Inv, Typed
    <2>2. \A e \in late' : e[1] \in Names /\ e[2] \in States \cup {Gone}
      BY DEF Inv, Typed
    <2> QED BY <2>1, <2>2 DEF Inv, Typed
  <1>2. Fresh'
    BY DEF Inv, Fresh
  <1>3. LateIsExcused'
    BY DEF Inv, LateIsExcused
  <1>5. Accounted'
    BY DEF Inv, Accounted, Unconfirmed, Live, Held, Mine, Here, Name
  <1>6. ASSUME NEW b \in Agents PROVE Fits(b, run[b])'
    <2>1. PICK r : r = run[b]
      OBVIOUS
    <2>2. run'[b] = r /\ Fits(b, r)
      BY <2>1 DEF Inv
    <2>3. Shape(r)' /\ Own(b, r)'
      BY <2>2 DEF Fits, Shape, Own, Inside, StepOf
    <2>4. Fetched(b, r)'
      BY <2>1, <2>2 DEF Fits, Fetched, Needs, Inside
    <2>5. \A x \in Residue(b)' : x \in Residue(b) \/ x \in strays'
      BY DEF Residue, Labelled
    <2>6. Swept(b, r)'
      BY <2>2, <2>5 DEF Fits, Swept, Inside
    <2>7. Fits(b, r)'
      BY <2>3, <2>4, <2>6 DEF Fits
    <2> QED BY <2>2, <2>7, FitsWhereItIs
  <1> QED BY <1>1, <1>2, <1>3, <1>5, <1>6 DEF Inv

\* A step of the daemon that leaves the images alone, or pulls.
LEMMA ImagesStay ==
  ASSUME Inv, gone' = gone, local' = local \/ Pulls, \A y \in DOMAIN daemon' : y \in Names
  PROVE  /\ local' \subseteq Images /\ gone' \subseteq Agents \X Images
         /\ \A b \in Agents : \A image :
               Needs(run[b], image) /\ AtHand(b, image) => AtHand(b, image)'
  <1>1. local \subseteq local' /\ local' \subseteq Images
    BY PullsGrow DEF Inv, Typed
  <1> QED BY <1>1 DEF AtHand, Inv, Typed

\* An image that goes is known to have gone to whoever needs it.
LEMMA ImageGoesStep ==
  ASSUME Inv, ImageGoes
  PROVE  Inv'
  <1>1. PICK image \in local :
            /\ local' = local \ {image}
            /\ gone' = gone \cup {<<a, image>> : a \in {b \in Agents : Needs(run[b], image)}}
    BY DEF ImageGoes
  <1>2. Fault /\ UNCHANGED <<daemon, late, run, starts, excused, strays>>
    BY DEF ImageGoes
  <1>3. local' \subseteq Images /\ gone' \subseteq Agents \X Images
    BY <1>1 DEF Inv, Typed
  <1>4. ASSUME NEW b \in Agents, NEW i, Needs(run[b], i), AtHand(b, i)
        PROVE  AtHand(b, i)'
    BY <1>1, <1>4 DEF AtHand
  <1>5. \A y \in DOMAIN daemon' : y \in Names /\ daemon'[y] \in States
    BY <1>2 DEF Inv, Typed
  <1> QED BY <1>2, <1>3, <1>4, <1>5, DaemonStep

\* A service that comes up or ends, and a one-shot container nobody waits for.
LEMMA ServiceStep ==
  ASSUME Inv, ServiceMoves
  PROVE  Inv'
  <1>1. PICK x \in DOMAIN daemon : ServiceComesUp(x) \/ ServiceDies(x) \/ OrphanEnds(x)
    BY DEF ServiceMoves
  <1>2. UNCHANGED <<local, gone, late, run, starts, excused, strays>>
    BY DEF ServiceMoves
  <1>3. faults' = faults \/ Fault
    BY <1>1 DEF ServiceComesUp, ServiceDies, OrphanEnds
  <1>4. \/ \E st \in {"serving", "exited"} : daemon' = Became(x, st)
        \/ daemon' = Without({x})
    BY <1>1 DEF ServiceComesUp, ServiceDies, OrphanEnds, ServiceLeft, OneShotLeft
  <1>5. \A y \in DOMAIN daemon : y \in Names /\ daemon[y] \in States
    BY DEF Inv, Typed
  <1>6. \A y \in DOMAIN daemon' : y \in DOMAIN daemon /\ daemon'[y] \in States
    <2>1. ASSUME NEW st \in {"serving", "exited"}, daemon' = Became(x, st)
          PROVE  \A y \in DOMAIN daemon' : y \in DOMAIN daemon /\ daemon'[y] \in States
      <3>1. st \in States
        BY DEF States
      <3>2. daemon' = Became(x, st)
        BY <2>1
      <3>3. /\ DOMAIN daemon' = DOMAIN daemon \cup {x}
            /\ \A y \in DOMAIN daemon \cup {x} : daemon'[y] = IF y = x THEN st ELSE daemon[y]
        BY <3>1, <3>2, BecameKnown
      <3> QED BY <1>5, <3>1, <3>3
    <2>2. CASE daemon' = Without({x})
      BY <1>5, <2>2, WithoutKeeps
    <2> QED BY <1>4, <2>1, <2>2
  <1>7. \A y \in DOMAIN daemon' : y \in Names
    BY <1>5, <1>6
  <1> QED BY <1>2, <1>3, <1>6, <1>7, ImagesStay, DaemonStep

\* What a killed client had asked for was excused when it was killed.
LEMMA LateStep ==
  ASSUME Inv, LateEffect
  PROVE  Inv'
  <1>1. PICK e \in late :
            /\ late' = late \ {e}
            /\ daemon' \in {daemon, Became(e[1], e[2])}
            /\ strays' = IF e[2] = Gone THEN strays ELSE strays \cup {e[1]}
    BY DEF LateEffect
  <1>2. Pulls /\ UNCHANGED <<gone, run, starts, faults, excused>>
    BY DEF LateEffect
  <1>3. \A y \in DOMAIN daemon : y \in Names /\ daemon[y] \in States
    BY DEF Inv, Typed
  <1>4. e[1] \in Names /\ e[2] \in States \cup {Gone} /\ e[1][2] <= starts[e[1][1]]
    BY DEF Inv, Typed, Fresh
  <1>5. strays \subseteq strays'
    BY <1>1
  <1>6. CASE daemon' = daemon
    BY <1>1, <1>2, <1>3, <1>5, <1>6, ImagesStay, DaemonStep
  <1>7. CASE e[2] = Gone /\ daemon' = Became(e[1], e[2])
    <2>1. daemon' = Without({e[1]})
      BY <1>7 DEF Became
    <2>2. \A y \in DOMAIN daemon' : y \in DOMAIN daemon /\ daemon'[y] = daemon[y]
      BY <2>1, WithoutKeeps
    <2>3. \A y \in DOMAIN daemon' : y \in Names /\ daemon'[y] \in States
      BY <1>3, <2>2
    <2> QED BY <1>1, <1>2, <1>5, <2>2, <2>3, ImagesStay, DaemonStep
  <1>8. CASE e[2] # Gone /\ daemon' = Became(e[1], e[2])
    <2>1. PICK x \in Names, st \in States : x = e[1] /\ st = e[2] /\ daemon' = Became(x, st)
      BY <1>4, <1>8
    <2>2. /\ DOMAIN daemon' = DOMAIN daemon \cup {x}
          /\ \A y \in DOMAIN daemon \cup {x} : daemon'[y] = IF y = x THEN st ELSE daemon[y]
      <3>1. daemon' = Became(x, st)
        BY <2>1
      <3> QED BY <3>1, BecameKnown
    <2>3. \A y \in DOMAIN daemon' : y \in Names /\ daemon'[y] \in States
      BY <1>3, <2>2
    <2>4. x \in excused /\ x \in strays' /\ x[2] <= starts[x[1]]
      BY <1>1, <1>4, <1>8, <2>1 DEF Inv, LateIsExcused
    <2> QED BY <1>1, <1>2, <1>5, <2>2, <2>3, <2>4, ImagesStay, DaemonStep
  <1> QED BY <1>1, <1>6, <1>7, <1>8

-----------------------------------------------------------------------------
(* The theorems                                                            *)

\* Nothing is made yet.
LEMMA InvInit == Init => Inv
  <1> SUFFICES ASSUME Init PROVE Inv
    OBVIOUS
  <1>1. /\ DOMAIN daemon = {} /\ late = {} /\ faults = MaxFaults /\ excused = {} /\ strays = {}
        /\ run = [a \in Agents |-> Idle] /\ starts = [a \in Agents |-> 0]
        /\ local \subseteq Images /\ gone = {}
    BY PreloadedAssumption DEF Init
  <1>2. Typed
    <2>1. run \in [Agents -> RunRecords] /\ \A a \in Agents : run[a].mod = None
      BY <1>1, IdleIsAPlace DEF Idle
    <2>2. starts \in [Agents -> Nat] /\ \A a \in Agents : starts[a] <= MaxRuns[a]
      BY <1>1, ContainersAssumption
    <2> QED BY <1>1, <2>1, <2>2, ContainersAssumption DEF Typed
  <1>3. Fresh /\ LateIsExcused /\ Accounted
    BY <1>1 DEF Fresh, LateIsExcused, Accounted
  <1>4. \A a \in Agents : Fits(a, run[a])
    BY <1>1 DEF Fits, Shape, Own, Fetched, Swept, Inside, Idle
  <1> QED BY <1>2, <1>3, <1>4 DEF Inv

\* Every step keeps the invariant.
LEMMA InvStep == Inv /\ [Next]_vars => Inv'
  <1> SUFFICES ASSUME Inv, [Next]_vars PROVE Inv'
    OBVIOUS
  <1>1. ASSUME NEW a \in Agents, Agent(a) \/ Crash(a) PROVE Inv'
    BY <1>1, AgentSteps
  <1>2. ASSUME NEW a \in Agents, NEW m \in Modules[a], Start(a, m) PROVE Inv'
    BY <1>2, StartStep
  <1>3. CASE ServiceMoves
    BY <1>3, ServiceStep
  <1>4. CASE LateEffect
    BY <1>4, LateStep
  <1>5. CASE ImageGoes
    BY <1>5, ImageGoesStep
  <1>6. CASE UNCHANGED vars
    <2>1. /\ UNCHANGED <<local, gone, run, starts, excused>>
          /\ daemon' = daemon /\ late' = late /\ strays' = strays /\ faults' = faults
      BY <1>6 DEF vars
    <2> QED BY <2>1, ImagesStay, DaemonStep DEF Inv, Typed
  <1> QED BY <1>1, <1>2, <1>3, <1>4, <1>5, <1>6 DEF Next, Finished

\* So it holds in every state of every run.
LEMMA InvAlways == Spec => []Inv
  BY InvInit, InvStep, PTL DEF Spec

\* The typing it holds is the module's type invariant.
LEMMA InvIsTyped == Inv => TypeOK
  <1> SUFFICES ASSUME Inv PROVE TypeOK
    OBVIOUS
  <1>1. \A a \in Agents : run[a] \in RunRecords
    BY DEF Inv, Typed
  <1>2. \A a \in Agents : run[a].at \in 0..16 /\ run[a].listed \subseteq Names
    BY <1>1 DEF RunRecords
  <1>3. \A a \in Agents : starts[a] \in 0..MaxRuns[a]
    BY ContainersAssumption DEF Inv, Typed
  <1> QED BY <1>2, <1>3 DEF Inv, Typed, TypeOK, Names

\* The daemon holds named objects in known states, and every agent is at a
\* place of its program.
THEOREM TypeCorrect == Spec => []TypeOK
  BY InvAlways, InvIsTyped, PTL

\* container.rs and the four modules: a module removes what it created on every
\* way out, so that whatever is still there when it is over is what some command
\* was not confirmed, or the network of such a container.
THEOREM NothingEverOutlivesItsModule == Spec => []NothingOutlivesItsModule
  <1>1. Inv => NothingOutlivesItsModule
    BY InvIsTyped DEF Inv, Accounted, NothingOutlivesItsModule
  <1> QED BY <1>1, InvAlways, PTL

\* container.rs `reap`: whatever an earlier run of the agent left is gone when
\* the agent launches or measures anything, but for what its sweep is known to
\* have missed.
THEOREM OwnResidueIsAlwaysSwept == Spec => []OwnResidueIsSwept
  <1>1. Inv => OwnResidueIsSwept
    <2> SUFFICES ASSUME Inv, NEW a \in Agents, Launched(a)
                 PROVE  Residue(a) \subseteq strays
      BY DEF OwnResidueIsSwept, Residue
    <2>1. run[a].mod # None /\ run[a].at \in DOMAIN Program[run[a].mod] /\ Here(a).op \in Measures
      BY DEF Launched, Measures
    <2>2. run[a] \in RunRecords /\ run[a].mod \in ModuleNames /\ Fits(a, run[a])
      BY <2>1 DEF Inv, Typed, RunRecords
    <2>3. Inside(run[a]) /\ StepOf(run[a]) = Here(a)
      BY <2>1, <2>2, ProgramsAreSound DEF Inside, Sound, StepOf, Here
    <2>4. run[a].at > SweptAt[run[a].mod]
      BY <2>1, <2>2, <2>3, StepIsSound DEF Row
    <2> QED BY <2>2, <2>3, <2>4 DEF Fits, Swept
  <1> QED BY <1>1, InvAlways, PTL

\* ensure_image_present comes before every use of the image it fetches, in each
\* of the four programs and on each path to it: when a module is about to make a
\* container, it has fetched the image, which is there unless it was removed since.
THEOREM NeverAnImplicitPull == Spec => []NoImplicitPull
  <1>1. Inv => NoImplicitPull
    BY MakerHasItsImage DEF NoImplicitPull
  <1> QED BY <1>1, InvAlways, PTL
=============================================================================
