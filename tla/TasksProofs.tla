---------------------------- MODULE TasksProofs ----------------------------
(* Tasks for any number of processes, deployments, tasks and runs, whatever    *)
(* the handlers return: daemons start and stop in order, the entries of the    *)
(* cron are registered once, a cancelled run is reported, Execute tells what   *)
(* was written, and a stored result is one of a run that went all the way.     *)
EXTENDS Tasks, FiniteSetTheorems, SequenceTheorems, TLAPS

Memory ==
    [phase : {"down", "starting", "up", "stopping"}, at : Nat, client : BOOLEAN,
     submitter : BOOLEAN, handlers : BOOLEAN, managers : SUBSET Locks,
     acquired : SUBSET Locks, entries : Nat, api : BOOLEAN,
     servers : {"none", "up", "draining", "down"}, shutting : BOOLEAN]

\* A worker service is there in these modes only.
HasWorker(p) == setup.mode[p] \in {"api", "worker"}

\* How far a process is says what is there: the client and the handlers from the
\* second daemon on, the API and the servers from the third.
Phased(p, m) ==
    /\ m \in Memory
    /\ m.at \in 0 .. Len(Daemon(p))
    /\ m.phase = "down" => m = Down
    /\ m.phase = "starting" => m.at < Len(Daemon(p))
    /\ m.phase \in {"up", "stopping"} => m.at > 0
    /\ m.at >= 2 /\ HasWorker(p) => m.client /\ m.handlers
    /\ m.api => m.at >= 3 /\ setup.mode[p] \in {"api", "default"}
    /\ m.servers \in {"up", "draining"} => m.at >= 3 /\ setup.mode[p] = "worker"
    /\ m.servers = "draining" => m.shutting

\* The entries are there once, and only while a lock is held or its runner has
\* still to be shut down.
Registered(p, m) ==
    /\ m.acquired \subseteq m.managers /\ m.entries \in {0, 1}
    /\ m.at < 2 \/ ~HasWorker(p) => m.managers = {} /\ m.entries = 0
    /\ "scheduler" \in m.managers /\ m.entries = 1 => "scheduler" \in m.acquired

Base ==
    /\ setup \in Setups /\ healthy \subseteq Stores
    /\ proc \in [Proc -> Memory]
    /\ lock \in [Locks -> Proc \cup {Nobody}]
    /\ schema \in {"old", "migrated", "seeded"}
    /\ boots \in [Proc -> Nat] /\ \A p \in Proc : boots[p] <= setup.boots[p]
    /\ faults \in 0 .. setup.faults

Migrated ==
    \A p \in Proc :
        setup.mode[p] = "default" /\ proc[p].at >= 2 /\ "database" \in setup.enabled =>
            schema # "old"

ProcInv == \A p \in Proc : Phased(p, proc[p]) /\ Registered(p, proc[p])

DaemonInv == Base /\ ProcInv /\ Migrated

-----------------------------------------------------------------------------
(* The daemons                                                             *)

LEMMA DaemonIs ==
    ASSUME NEW p \in Proc, setup.mode[p] \in Modes
    PROVE  LET mode == setup.mode[p] IN
           /\ mode = "api" => Daemon(p) = <<"connectors", "worker", "api", "health">>
           /\ mode = "worker" => Daemon(p) = <<"connectors", "worker", "servers", "health">>
           /\ mode = "db_migration" => Daemon(p) = <<"connectors", "migrate", "exit">>
           /\ mode = "db_seed" => Daemon(p) = <<"connectors", "migrate", "seed", "exit">>
           /\ mode = "default" => Daemon(p) = <<"connectors", "migrate", "api", "health">>
BY DEF Daemon, Work, ApiWork, WorkerWork, MigrationWork, SeedWork, DefaultWork, Modes


\* Where the daemons are in the lists.
LEMMA WhereIs ==
    ASSUME NEW p \in Proc, setup.mode[p] \in Modes
    PROVE  /\ Len(Daemon(p)) \in 3 .. 4
           /\ \A i \in 1 .. Len(Daemon(p)) :
                /\ Daemon(p)[i] = "worker" <=> i = 2 /\ HasWorker(p)
                /\ Daemon(p)[i] = "servers" <=> i = 3 /\ setup.mode[p] = "worker"
                /\ Daemon(p)[i] = "api" => i = 3 /\ setup.mode[p] \in {"api", "default"}
                /\ i = 2 /\ setup.mode[p] = "default" => Daemon(p)[i] = "migrate"
<1>1. CASE setup.mode[p] = "api"
  BY <1>1, DaemonIs DEF HasWorker
<1>2. CASE setup.mode[p] = "worker"
  BY <1>2, DaemonIs DEF HasWorker
<1>3. CASE setup.mode[p] = "db_migration"
  BY <1>3, DaemonIs DEF HasWorker
<1>4. CASE setup.mode[p] = "db_seed"
  BY <1>4, DaemonIs DEF HasWorker
<1>5. CASE setup.mode[p] = "default"
  BY <1>5, DaemonIs DEF HasWorker
<1> QED
  BY <1>1, <1>2, <1>3, <1>4, <1>5 DEF Modes

LEMMA ModeIs ==
    ASSUME Base, NEW p \in Proc
    PROVE  setup.mode[p] \in Modes
BY DaemonAssumption DEF Base

LEMMA DownIs ==
    ASSUME Base, NEW p \in Proc
    PROVE  Phased(p, Down) /\ Registered(p, Down)
<1>1. Len(Daemon(p)) \in 3 .. 4
  BY ModeIs, WhereIs
<1> QED
  BY <1>1 DEF Phased, Registered, Down, Memory

\* A step that gives one process a memory that is in order keeps the others.
LEMMA SetKeeps ==
    ASSUME Base, ProcInv, NEW p \in Proc, NEW m, Set(p, m), setup' = setup,
           Phased(p, m), Registered(p, m)
    PROVE  proc' \in [Proc -> Memory] /\ ProcInv' /\ proc'[p] = m
<1>1. m \in Memory
  BY DEF Phased
<1>2. proc' \in [Proc -> Memory] /\ proc'[p] = m /\ \A q \in Proc \ {p} : proc'[q] = proc[q]
  BY <1>1 DEF Base, Set
<1>3. ASSUME NEW q \in Proc PROVE (Phased(q, proc[q]) /\ Registered(q, proc[q]))'
  <2>1. Phased(q, proc'[q]) /\ Registered(q, proc'[q])
    BY <1>2 DEF ProcInv
  <2> QED
    BY <2>1 DEF Phased, Registered, HasWorker, Daemon
<1> QED
  BY <1>2, <1>3 DEF ProcInv

\* A process that goes on keeps its servers, and what it knows of its shutdown.
GoesOn(p) ==
    \/ proc[p].phase = "down" \/ proc'[p].phase = "down"
    \/ /\ proc[p].servers \in {"up", "draining"} => proc'[p].servers \in {"up", "draining"}
       /\ proc[p].shutting => proc'[p].shutting

\* What a step of the daemons of p does.
Daemonic(p) == DaemonInv' /\ setup' = setup /\ GoesOn(p) /\ \A q \in Proc \ {p} : proc'[q] = proc[q]

LEMMA BootKeeps ==
    ASSUME DaemonInv, NEW p \in Proc, Boot(p)
    PROVE  Daemonic(p)
<1> DEFINE m == [Down EXCEPT !.phase = "starting"]
<1>1. Len(Daemon(p)) \in 3 .. 4
  BY ModeIs, WhereIs DEF DaemonInv
<1>2. Phased(p, m) /\ Registered(p, m)
  <2>1. /\ m \in Memory /\ m.at = 0 /\ m.phase = "starting" /\ m.api = FALSE /\ m.servers = "none"
        /\ m.managers = {} /\ m.acquired = {} /\ m.entries = 0
    BY DEF Down, Memory
  <2> HIDE DEF m
  <2>2. 0 \in 0 .. Len(Daemon(p)) /\ 0 < Len(Daemon(p))
    BY <1>1
  <2>4. Phased(p, m)
    BY <2>1, <2>2 DEF Phased
  <2>3. Registered(p, m)
    BY <2>1 DEF Registered
  <2> QED
    BY <2>3, <2>4
<1>3. Set(p, m) /\ setup' = setup
  BY DEF Boot
<1>4. proc' \in [Proc -> Memory] /\ ProcInv' /\ proc'[p] = m
  BY <1>2, <1>3, SetKeeps DEF DaemonInv
<1>5. m.at = 0 /\ \A q \in Proc \ {p} : proc'[q] = proc[q]
  BY <1>3 DEF Set, DaemonInv, Base, Down
<1>6. boots' \in [Proc -> Nat] /\ \A q \in Proc : boots'[q] <= setup.boots[q]
  <2>1. setup.boots \in [Proc -> Nat]
    BY DaemonAssumption DEF DaemonInv, Base
  <2> QED
    BY <2>1 DEF Boot, DaemonInv, Base
<1>7. Base'
  BY <1>4, <1>6 DEF Boot, DaemonInv, Base
<1>8. Migrated'
  <2>1. schema' = schema /\ setup' = setup /\ proc'[p].at = 0
    BY <1>4, <1>5 DEF Boot
  <2> QED
    BY <1>5, <2>1 DEF DaemonInv, Migrated
<1> QED
  BY <1>3, <1>4, <1>5, <1>7, <1>8 DEF Daemonic, DaemonInv, GoesOn, Boot

\* What a daemon adds to its process.
LEMMA StartedIs ==
    ASSUME NEW m \in Memory, NEW d, NEW n, n = Started(m, d)
    PROVE  /\ n \in Memory /\ n.at = m.at /\ n.acquired = m.acquired /\ n.entries = m.entries
           /\ n.shutting = m.shutting /\ n.phase = m.phase
           /\ IF d = "worker" THEN n.client /\ n.handlers /\ n.managers = {"scheduler"}
              ELSE n.client = m.client /\ n.handlers = m.handlers
           /\ IF d = "servers" THEN n.servers = "up" /\ n.managers = m.managers \cup {"unique"}
              ELSE n.servers = m.servers
           /\ d \notin {"worker", "servers"} => n.managers = m.managers
           /\ d # "api" => n.api = m.api
<1>1. CASE d = "worker"
  BY <1>1 DEF Started, StartClient, RegisterService, Memory, Locks
<1>2. CASE d = "servers"
  BY <1>2 DEF Started, StartService, Memory, Locks
<1>3. CASE d = "api"
  BY <1>3 DEF Started, Memory
<1>4. CASE d \notin {"worker", "servers", "api"}
  BY <1>4 DEF Started
<1> QED
  BY <1>1, <1>2, <1>3, <1>4

LEMMA StartKeeps ==
    ASSUME DaemonInv, NEW p \in Proc, StartDaemon(p)
    PROVE  Daemonic(p)
<1> DEFINE old == proc[p]
           at == old.at + 1
           d == Daemon(p)[at]
           new == Started(old, d)
           ph == IF d = "exit" THEN "stopping" ELSE IF at = Len(Daemon(p)) THEN "up" ELSE "starting"
           m == [new EXCEPT !.at = at, !.phase = ph]
<1>1. /\ old \in Memory /\ Phased(p, old) /\ Registered(p, old) /\ old.phase = "starting"
      /\ setup.mode[p] \in Modes
  BY ModeIs DEF StartDaemon, DaemonInv, Base, ProcInv
<1>2. Len(Daemon(p)) \in 3 .. 4 /\ old.at \in Nat /\ old.at < Len(Daemon(p))
  BY <1>1, WhereIs DEF Phased, Memory
<1>3. at \in 1 .. Len(Daemon(p)) /\ at > 0 /\ at \in Nat
  BY <1>2
<1>4. /\ d = "worker" <=> at = 2 /\ HasWorker(p)
      /\ d = "servers" <=> at = 3 /\ setup.mode[p] = "worker"
      /\ d = "api" => at = 3 /\ setup.mode[p] \in {"api", "default"}
      /\ at = 2 /\ setup.mode[p] = "default" => d = "migrate"
  BY <1>1, <1>3, WhereIs
<1>5. /\ Set(p, m) /\ (\E ok \in BOOLEAN : schema' = Schema(d, ok))
      /\ UNCHANGED <<setup, healthy, lock, boots, faults>>
  BY DEF StartDaemon
<1>6. /\ new \in Memory /\ new.acquired = old.acquired /\ new.entries = old.entries
      /\ new.shutting = old.shutting
      /\ IF d = "worker" THEN new.client /\ new.handlers /\ new.managers = {"scheduler"}
         ELSE new.client = old.client /\ new.handlers = old.handlers
      /\ IF d = "servers" THEN new.servers = "up" /\ new.managers = old.managers \cup {"unique"}
         ELSE new.servers = old.servers
      /\ d \notin {"worker", "servers"} => new.managers = old.managers
      /\ d # "api" => new.api = old.api
  BY <1>1, StartedIs
<1>7. ph \in {"stopping", "up", "starting"} /\ (ph = "starting" => at < Len(Daemon(p)))
  BY <1>2, <1>3
<1> HIDE DEF new, d, ph
<1>8. /\ m \in Memory /\ m.at = at /\ m.phase = ph
      /\ m.client = new.client /\ m.handlers = new.handlers /\ m.managers = new.managers
      /\ m.acquired = new.acquired /\ m.entries = new.entries /\ m.api = new.api
      /\ m.servers = new.servers /\ m.shutting = new.shutting
  BY <1>3, <1>6, <1>7 DEF Memory
<1> HIDE DEF m, at
<1>9. at = old.at + 1
  BY DEF at
<1>10. Phased(p, m)
  <2>1. m.at \in 0 .. Len(Daemon(p)) /\ (m.phase = "starting" => m.at < Len(Daemon(p))) /\ m.at > 0
    BY <1>2, <1>3, <1>7, <1>8
  <2>2. m.at >= 2 /\ HasWorker(p) => m.client /\ m.handlers
    <3>1. CASE d = "worker"
      BY <1>6, <1>8, <3>1
    <3>2. CASE d # "worker"
      BY <1>1, <1>2, <1>4, <1>6, <1>8, <1>9, <3>2 DEF Phased
    <3> QED
      BY <3>1, <3>2
  <2>3. m.api => m.at >= 3 /\ setup.mode[p] \in {"api", "default"}
    <3>1. CASE d = "api"
      BY <1>4, <1>8, <3>1
    <3>2. CASE d # "api"
      <4>1. m.api = old.api
        BY <1>6, <1>8, <3>2
      <4>2. old.api => old.at >= 3 /\ setup.mode[p] \in {"api", "default"}
        BY <1>1 DEF Phased
      <4>3. old.at >= 3 => m.at >= 3
        BY <1>2, <1>8, <1>9
      <4> QED
        BY <4>1, <4>2, <4>3
    <3> QED
      BY <3>1, <3>2
  <2>4. m.servers \in {"up", "draining"} => m.at >= 3 /\ setup.mode[p] = "worker"
    <3>1. CASE d = "servers"
      BY <1>4, <1>8, <3>1
    <3>2. CASE d # "servers"
      BY <1>1, <1>2, <1>6, <1>8, <1>9, <3>2 DEF Phased
    <3> QED
      BY <3>1, <3>2
  <2>5. m.servers = "draining" => m.shutting
    BY <1>1, <1>6, <1>8 DEF Phased
  <2>6. m.phase # "down"
    BY <1>7, <1>8
  <2> QED
    BY <1>8, <2>1, <2>2, <2>3, <2>4, <2>5, <2>6 DEF Phased
<1>11. Registered(p, m)
  <2>1. CASE d = "worker"
    <3>1. old.managers = {} /\ old.entries = 0 /\ old.acquired = {}
      BY <1>1, <1>2, <1>4, <1>9, <2>1 DEF Registered
    <3>2. m.at = 2 /\ HasWorker(p)
      BY <1>4, <1>8, <2>1
    <3> QED
      BY <1>6, <1>8, <2>1, <3>1, <3>2 DEF Registered
  <2>2. CASE d = "servers"
    <3>1. m.at = 3 /\ HasWorker(p) /\ m.managers = old.managers \cup {"unique"}
      BY <1>4, <1>6, <1>8, <2>2 DEF HasWorker
    <3> QED
      BY <1>1, <1>6, <1>8, <2>2, <3>1 DEF Registered
  <2>3. CASE d \notin {"worker", "servers"}
    <3>1. m.managers = old.managers /\ m.entries = old.entries /\ m.acquired = old.acquired
      BY <1>6, <1>8, <2>3
    <3>2. m.at < 2 => old.at < 2
      BY <1>2, <1>8, <1>9
    <3> QED
      BY <1>1, <3>1, <3>2 DEF Registered
  <2> QED
    BY <2>1, <2>2, <2>3
<1>12. proc' \in [Proc -> Memory] /\ ProcInv' /\ proc'[p] = m
  BY <1>5, <1>10, <1>11, SetKeeps DEF DaemonInv
<1>13. \A q \in Proc \ {p} : proc'[q] = proc[q]
  BY <1>5 DEF Set, DaemonInv, Base
<1>14. schema' \in {"old", "migrated", "seeded"} /\ (schema # "old" => schema' # "old")
  BY <1>5 DEF Schema, DaemonInv, Base
<1>15. Base'
  BY <1>5, <1>12, <1>14 DEF DaemonInv, Base
<1>16. Migrated'
  <2> SUFFICES ASSUME NEW q \in Proc, setup.mode[q] = "default", proc'[q].at >= 2,
                      "database" \in setup.enabled
               PROVE  schema' # "old"
    BY <1>5 DEF Migrated
  <2>1. CASE proc[q].at >= 2
    BY <1>14, <2>1 DEF DaemonInv, Migrated
  <2>2. CASE ~ (proc[q].at >= 2)
    <3>1. q = p
      BY <1>13, <2>2
    <3>2. d = "migrate"
      BY <1>2, <1>4, <1>8, <1>9, <1>12, <2>2, <3>1
    <3> QED
      BY <1>5, <3>2 DEF Schema
  <2> QED
    BY <2>1, <2>2
<1>17. GoesOn(p)
  BY <1>6, <1>8, <1>12 DEF GoesOn
<1> QED
  BY <1>5, <1>12, <1>13, <1>15, <1>16, <1>17 DEF Daemonic, DaemonInv

\* A step that moves one process, not further on.
LEMMA MoveKeeps ==
    ASSUME DaemonInv, NEW p \in Proc, NEW m, Set(p, m), Phased(p, m), Registered(p, m),
           m.at <= proc[p].at, UNCHANGED <<setup, schema, boots>>,
           healthy' \subseteq Stores, lock' \in [Locks -> Proc \cup {Nobody}],
           faults' \in 0 .. setup.faults
    PROVE  DaemonInv' /\ proc'[p] = m /\ \A q \in Proc \ {p} : proc'[q] = proc[q]
<1>1. proc' \in [Proc -> Memory] /\ ProcInv' /\ proc'[p] = m
  BY SetKeeps DEF DaemonInv
<1>2. \A q \in Proc \ {p} : proc'[q] = proc[q]
  BY DEF Set, DaemonInv, Base
<1>3. Base'
  BY <1>1 DEF DaemonInv, Base
<1>4. Migrated'
  <2>1. proc[p].at \in Nat /\ m.at \in Nat /\ (m.at >= 2 => proc[p].at >= 2)
    BY DEF DaemonInv, Base, Phased, Memory
  <2> QED
    BY <1>1, <1>2, <2>1 DEF DaemonInv, Migrated
<1> QED
  BY <1>1, <1>2, <1>3, <1>4 DEF DaemonInv

\* What is known of the process that moves.
LEMMA OldIs ==
    ASSUME DaemonInv, NEW p \in Proc
    PROVE  /\ proc[p] \in Memory /\ Phased(p, proc[p]) /\ Registered(p, proc[p])
           /\ setup.mode[p] \in Modes /\ Len(Daemon(p)) \in 3 .. 4 /\ Len(Daemon(p)) \in Nat
           /\ proc[p].at \in Nat /\ proc[p].at <= Len(Daemon(p))
           /\ setup \in Setups /\ setup.faults \in Nat /\ faults \in 0 .. setup.faults
           /\ healthy \subseteq Stores /\ lock \in [Locks -> Proc \cup {Nobody}]
<1>1. proc[p] \in Memory /\ Phased(p, proc[p]) /\ Registered(p, proc[p])
  BY DEF DaemonInv, Base, ProcInv
<1>2. setup.mode[p] \in Modes /\ Len(Daemon(p)) \in 3 .. 4
  BY ModeIs, WhereIs DEF DaemonInv
<1>3. setup \in Setups /\ setup.faults \in Nat
  BY DaemonAssumption DEF DaemonInv, Base
<1> QED
  BY <1>1, <1>2, <1>3 DEF DaemonInv, Base, Phased, Memory

LEMMA FaultIs ==
    ASSUME DaemonInv, NEW kind, Fault(kind)
    PROVE  faults' \in 0 .. setup.faults
<1>1. setup.faults \in Nat
  BY DaemonAssumption DEF DaemonInv, Base
<1> QED
  BY <1>1 DEF Fault, DaemonInv, Base

\* A process that ends, or leaves its memory but for the phase.
LEMMA EndKeeps ==
    ASSUME DaemonInv, NEW p \in Proc, Set(p, Down), UNCHANGED <<setup, healthy, lock, schema, boots>>,
           faults' \in 0 .. setup.faults
    PROVE  Daemonic(p)
<1>1. Phased(p, Down) /\ Registered(p, Down)
  BY DownIs DEF DaemonInv
<1>2. Down.at <= proc[p].at /\ Down.phase = "down"
  BY OldIs DEF Down
<1>3. DaemonInv' /\ proc'[p] = Down /\ \A q \in Proc \ {p} : proc'[q] = proc[q]
  BY <1>1, <1>2, OldIs, MoveKeeps
<1> QED
  BY <1>2, <1>3 DEF Daemonic, GoesOn

LEMMA StopsKeeps ==
    ASSUME DaemonInv, NEW p \in Proc, proc[p].at > 0, proc[p].phase \in {"starting", "up"},
           Set(p, [proc[p] EXCEPT !.phase = "stopping"]),
           UNCHANGED <<setup, healthy, lock, schema, boots, faults>>
    PROVE  Daemonic(p)
<1> DEFINE m == [proc[p] EXCEPT !.phase = "stopping"]
<1>1. /\ m \in Memory /\ m.phase = "stopping" /\ m.at = proc[p].at
      /\ m.client = proc[p].client /\ m.handlers = proc[p].handlers
      /\ m.managers = proc[p].managers /\ m.acquired = proc[p].acquired
      /\ m.entries = proc[p].entries /\ m.api = proc[p].api
      /\ m.servers = proc[p].servers /\ m.shutting = proc[p].shutting
  BY OldIs DEF Memory
<1> HIDE DEF m
<1>2. Phased(p, m)
  BY <1>1, OldIs DEF Phased
<1>3. Registered(p, m)
  BY <1>1, OldIs DEF Registered
<1>4. m.at <= proc[p].at
  BY <1>1, OldIs
<1>5. DaemonInv' /\ proc'[p] = m /\ \A q \in Proc \ {p} : proc'[q] = proc[q]
  BY <1>2, <1>3, <1>4, OldIs, MoveKeeps DEF m
<1> QED
  BY <1>1, <1>5 DEF Daemonic, GoesOn

LEMMA StartFailsKeeps ==
    ASSUME DaemonInv, NEW p \in Proc, StartFails(p)
    PROVE  Daemonic(p)
BY EndKeeps, StopsKeeps, OldIs DEF StartFails

LEMMA CrashKeeps ==
    ASSUME DaemonInv, NEW p \in Proc, Crash(p)
    PROVE  Daemonic(p)
BY EndKeeps, FaultIs DEF Crash

LEMMA ShutdownKeeps ==
    ASSUME DaemonInv, NEW p \in Proc, Shutdown(p)
    PROVE  Daemonic(p)
<1>1. proc[p].at > 0
  BY OldIs DEF Phased, Shutdown
<1> QED
  BY <1>1, StopsKeeps DEF Shutdown

LEMMA AcquireKeeps ==
    ASSUME DaemonInv, NEW p \in Proc, NEW l \in Locks, Acquire(p, l)
    PROVE  Daemonic(p)
<1> DEFINE n == IF l = "scheduler" THEN 1 ELSE 0
           m == [proc[p] EXCEPT !.acquired = @ \cup {l}, !.entries = @ + n]
<1>1. l \in proc[p].managers /\ l \notin proc[p].acquired
  BY DEF Acquire, Owns
<1>2. l = "scheduler" => proc[p].entries = 0
  BY <1>1, OldIs DEF Registered
<1>3. proc[p].entries \in Nat /\ n \in Nat /\ proc[p].entries + n \in {0, 1}
  BY <1>2, OldIs DEF Registered, Memory
<1> HIDE DEF n
<1>4. /\ m \in Memory /\ m.at = proc[p].at /\ m.phase = proc[p].phase
      /\ m.client = proc[p].client /\ m.handlers = proc[p].handlers
      /\ m.managers = proc[p].managers /\ m.acquired = proc[p].acquired \cup {l}
      /\ m.entries = proc[p].entries + n /\ m.api = proc[p].api
      /\ m.servers = proc[p].servers /\ m.shutting = proc[p].shutting
  <2>1. proc[p].entries + n \in Nat /\ proc[p].acquired \cup {l} \in SUBSET Locks
    BY <1>3, OldIs DEF Memory
  <2> QED
    BY <2>1, OldIs DEF Memory
<1>5. proc[p].phase # "down" /\ m.at >= 2 /\ HasWorker(p)
  BY <1>1, <1>4, OldIs DEF Phased, Registered, Down
<1>6. l # "scheduler" => m.entries = proc[p].entries
  BY <1>3, <1>4 DEF n
<1>7. m.entries \in {0, 1}
  BY <1>3, <1>4
<1> HIDE DEF m
<1>8. Phased(p, m)
  BY <1>4, <1>5, OldIs DEF Phased
<1>9. Registered(p, m)
  BY <1>1, <1>4, <1>5, <1>6, <1>7, OldIs DEF Registered
<1>10. Set(p, m) /\ UNCHANGED <<setup, healthy, schema, boots, faults>>
  BY DEF Acquire, m, n
<1>11. lock' \in [Locks -> Proc \cup {Nobody}]
  BY OldIs DEF Acquire
<1>12. m.at <= proc[p].at
  BY <1>4, OldIs
<1>13. DaemonInv' /\ proc'[p] = m /\ \A q \in Proc \ {p} : proc'[q] = proc[q]
  BY <1>8, <1>9, <1>10, <1>11, <1>12, OldIs, MoveKeeps
<1> QED
  BY <1>4, <1>10, <1>13 DEF Daemonic, GoesOn

\* What a daemon that stops knows of where it is.
LEMMA StoppingIs ==
    ASSUME DaemonInv, NEW p \in Proc, NEW d, Stopping(p, d)
    PROVE  /\ proc[p].phase = "stopping" /\ proc[p].at \in 1 .. Len(Daemon(p))
           /\ d = "worker" => proc[p].at = 2 /\ HasWorker(p)
           /\ d = "servers" => proc[p].at = 3 /\ setup.mode[p] = "worker"
           /\ proc[p].at = 2 /\ HasWorker(p) => d = "worker"
           /\ proc[p].at = 3 /\ setup.mode[p] = "worker" => d = "servers"
BY OldIs, WhereIs DEF Stopping

\* Stopped, for a memory that is the old one but for what the daemon took away.
LEMMA StoppedKeeps ==
    ASSUME DaemonInv, NEW p \in Proc, NEW m \in Memory, Stopped(p, m),
           proc[p].phase = "stopping", m.phase = "stopping", m.at = proc[p].at,
           UNCHANGED <<setup, healthy, lock, schema, boots, faults>>,
           Registered(p, [m EXCEPT !.at = @ - 1]),
           m.at > 2 /\ HasWorker(p) => m.client /\ m.handlers,
           m.api => m.at > 3 /\ setup.mode[p] \in {"api", "default"},
           m.servers \in {"up", "draining"} => m.at > 3 /\ setup.mode[p] = "worker",
           m.servers = "draining" => m.shutting
    PROVE  /\ DaemonInv' /\ setup' = setup /\ \A q \in Proc \ {p} : proc'[q] = proc[q]
           /\ \/ proc[p].at = 1 /\ proc'[p].phase = "down"
              \/ /\ proc[p].at # 1 /\ proc'[p].phase = "stopping"
                 /\ proc'[p].servers = m.servers /\ proc'[p].shutting = m.shutting
<1> DEFINE n == [m EXCEPT !.at = @ - 1]
<1>1. CASE proc[p].at = 1
  BY <1>1, EndKeeps, OldIs DEF Stopped, Daemonic, SetKeeps, Down, Set, DaemonInv, Base
<1>2. CASE proc[p].at # 1
  <2>1. m.at > 1 /\ m.at \in Nat /\ m.at <= Len(Daemon(p)) /\ Len(Daemon(p)) \in Nat
    BY <1>2, OldIs DEF Phased
  <2>2. m.at - 1 \in Nat /\ m.at - 1 > 0 /\ m.at - 1 \in 0 .. Len(Daemon(p))
    BY <2>1
  <2>3. /\ n \in Memory /\ n.at = m.at - 1 /\ n.phase = "stopping"
        /\ n.client = m.client /\ n.handlers = m.handlers /\ n.api = m.api
        /\ n.servers = m.servers /\ n.shutting = m.shutting
    BY <2>2 DEF Memory
  <2>4. Set(p, n)
    BY <1>2 DEF Stopped
  <2> HIDE DEF n
  <2>5. Phased(p, n)
    <3>1. n.at >= 2 /\ HasWorker(p) => n.client /\ n.handlers
      BY <2>1, <2>3
    <3>2. n.servers \in {"up", "draining"} => n.at >= 3 /\ setup.mode[p] = "worker"
      BY <2>1, <2>3
    <3>3. n.api => n.at >= 3 /\ setup.mode[p] \in {"api", "default"}
      <4>1. n.api => m.api
        BY <2>3
      <4>2. m.at > 3 => n.at >= 3
        BY <2>1, <2>3
      <4> QED
        BY <4>1, <4>2
    <3>4. n.servers = "draining" => n.shutting
      BY <2>3
    <3>5. n.at \in 0 .. Len(Daemon(p)) /\ n.at > 0
      BY <2>2, <2>3
    <3> QED
      BY <2>3, <3>1, <3>2, <3>3, <3>4, <3>5 DEF Phased
  <2>6. Registered(p, n) /\ n.at <= proc[p].at
    BY <2>1, <2>3 DEF n
  <2>7. DaemonInv' /\ proc'[p] = n /\ \A q \in Proc \ {p} : proc'[q] = proc[q]
    BY <2>4, <2>5, <2>6, OldIs, MoveKeeps
  <2> QED
    BY <1>2, <2>3, <2>7
<1> QED
  BY <1>1, <1>2

LEMMA StopDaemonKeeps ==
    ASSUME DaemonInv, NEW p \in Proc, StopDaemon(p)
    PROVE  Daemonic(p)
<1> DEFINE m == [proc[p] EXCEPT !.api = FALSE]
<1>1. PICK d \in {"connectors", "migrate", "seed", "exit", "health", "api"} : Stopping(p, d)
  BY DEF StopDaemon
<1>2. /\ m \in Memory /\ m.phase = proc[p].phase /\ m.at = proc[p].at /\ m.api = FALSE
      /\ m.client = proc[p].client /\ m.handlers = proc[p].handlers
      /\ m.managers = proc[p].managers /\ m.acquired = proc[p].acquired
      /\ m.entries = proc[p].entries
      /\ m.servers = proc[p].servers /\ m.shutting = proc[p].shutting
  BY OldIs DEF Memory
<1>3. Stopped(p, m) /\ UNCHANGED <<setup, healthy, lock, schema, boots, faults>>
  BY DEF StopDaemon
<1>4. /\ proc[p].phase = "stopping" /\ m.at \in 1 .. Len(Daemon(p)) /\ m.at \in Nat
      /\ ~(m.at = 2 /\ HasWorker(p)) /\ ~(m.at = 3 /\ setup.mode[p] = "worker")
  BY <1>1, <1>2, StoppingIs, OldIs
<1> HIDE DEF m
<1>5. Registered(p, [m EXCEPT !.at = @ - 1])
  <2> DEFINE n == [m EXCEPT !.at = @ - 1]
  <2>1. /\ n.at = m.at - 1 /\ n.managers = m.managers /\ n.acquired = m.acquired
        /\ n.entries = m.entries
    BY <1>2 DEF Memory
  <2>2. n.at < 2 \/ ~HasWorker(p) => m.at < 2 \/ ~HasWorker(p)
    BY <1>4, <2>1
  <2> HIDE DEF n
  <2>3. Registered(p, n)
    BY <1>2, <2>1, <2>2, OldIs DEF Registered
  <2> QED
    BY <2>3 DEF n
<1>6. m.at > 2 /\ HasWorker(p) => m.client /\ m.handlers
  BY <1>2, <1>4, OldIs DEF Phased
<1>7. m.servers \in {"up", "draining"} => m.at > 3 /\ setup.mode[p] = "worker"
  <2>1. m.servers \in {"up", "draining"} => m.at >= 3 /\ setup.mode[p] = "worker"
    BY <1>2, OldIs DEF Phased
  <2> QED
    BY <1>4, <2>1
<1>8. m.servers = "draining" => m.shutting
  BY <1>2, OldIs DEF Phased
<1>9. /\ DaemonInv' /\ \A q \in Proc \ {p} : proc'[q] = proc[q]
      /\ \/ proc'[p].phase = "down"
         \/ proc'[p].servers = m.servers /\ proc'[p].shutting = m.shutting
  BY <1>2, <1>3, <1>4, <1>5, <1>6, <1>7, <1>8, StoppedKeeps
<1> QED
  BY <1>2, <1>3, <1>9 DEF Daemonic, GoesOn

LEMMA StopServiceKeeps ==
    ASSUME DaemonInv, NEW p \in Proc, StopService(p)
    PROVE  Daemonic(p)
<1> DEFINE m == BeginDrain(proc[p])
<1>1. proc[p].at = 3 /\ setup.mode[p] = "worker" /\ proc[p].phase = "stopping"
  BY StoppingIs DEF StopService
<1>2. /\ m \in Memory /\ m.phase = proc[p].phase /\ m.at = proc[p].at /\ m.api = proc[p].api
      /\ m.client = proc[p].client /\ m.handlers = proc[p].handlers
      /\ m.managers = proc[p].managers \ {"unique"}
      /\ m.acquired = proc[p].acquired \ {"unique"}
      /\ m.entries = proc[p].entries /\ m.servers = "draining" /\ m.shutting = TRUE
  BY OldIs DEF Memory, BeginDrain
<1> HIDE DEF m
<1>3. Phased(p, m)
  BY <1>1, <1>2, OldIs DEF Phased
<1>4. Registered(p, m)
  BY <1>1, <1>2, OldIs DEF Registered
<1>5. Set(p, m) /\ UNCHANGED <<setup, healthy, schema, boots, faults>> /\ Release(p, "unique")
  BY DEF StopService, m
<1>6. lock' \in [Locks -> Proc \cup {Nobody}] /\ m.at <= proc[p].at
  BY <1>1, <1>2, <1>5, OldIs DEF Release
<1>7. DaemonInv' /\ proc'[p] = m /\ \A q \in Proc \ {p} : proc'[q] = proc[q]
  BY <1>3, <1>4, <1>5, <1>6, OldIs, MoveKeeps
<1> QED
  BY <1>2, <1>5, <1>7 DEF Daemonic, GoesOn

LEMMA UnRegisterKeeps ==
    ASSUME DaemonInv, NEW p \in Proc, UnRegisterService(p)
    PROVE  Daemonic(p)
<1> DEFINE m == [proc[p] EXCEPT !.managers = {}, !.acquired = {}]
<1>1. proc[p].at = 2 /\ HasWorker(p) /\ proc[p].phase = "stopping"
  BY StoppingIs DEF UnRegisterService
<1>2. /\ m \in Memory /\ m.phase = proc[p].phase /\ m.at = proc[p].at /\ m.api = proc[p].api
      /\ m.client = proc[p].client /\ m.handlers = proc[p].handlers
      /\ m.managers = {} /\ m.acquired = {} /\ m.entries = proc[p].entries
      /\ m.servers = proc[p].servers /\ m.shutting = proc[p].shutting
  BY OldIs DEF Memory
<1> HIDE DEF m
<1>3. Phased(p, m)
  BY <1>1, <1>2, OldIs DEF Phased
<1>4. Registered(p, m)
  BY <1>1, <1>2, OldIs DEF Registered
<1>5. Set(p, m) /\ UNCHANGED <<setup, healthy, schema, boots, faults>> /\ Release(p, "scheduler")
  BY DEF UnRegisterService, m
<1>6. lock' \in [Locks -> Proc \cup {Nobody}] /\ m.at <= proc[p].at
  BY <1>1, <1>2, <1>5, OldIs DEF Release
<1>7. DaemonInv' /\ proc'[p] = m /\ \A q \in Proc \ {p} : proc'[q] = proc[q]
  BY <1>3, <1>4, <1>5, <1>6, OldIs, MoveKeeps
<1> QED
  BY <1>2, <1>5, <1>7 DEF Daemonic, GoesOn

LEMMA StopClientKeeps ==
    ASSUME DaemonInv, NEW p \in Proc, StopClient(p)
    PROVE  Daemonic(p)
<1> DEFINE m == [proc[p] EXCEPT !.client = FALSE]
           n == [m EXCEPT !.at = @ - 1]
<1>1. /\ proc[p].at = 2 /\ HasWorker(p) /\ proc[p].phase = "stopping"
      /\ proc[p].managers = {} /\ proc[p].entries = 0
  BY StoppingIs DEF StopClient
<1>2. /\ m \in Memory /\ m.phase = proc[p].phase /\ m.at = 2 /\ m.api = proc[p].api
      /\ m.managers = {} /\ m.acquired = proc[p].acquired /\ m.entries = 0
      /\ m.servers = proc[p].servers /\ m.shutting = proc[p].shutting
  BY <1>1, OldIs DEF Memory
<1>3. n.managers = {} /\ n.acquired = proc[p].acquired /\ n.entries = 0 /\ n.at = 1
  BY <1>1, <1>2, OldIs DEF Memory
<1> HIDE DEF m
<1>4. proc[p].acquired = {}
  BY <1>1, OldIs DEF Registered
<1>5. Registered(p, n)
  <2> HIDE DEF n
  <2> QED
    BY <1>3, <1>4 DEF Registered
<1>6. m.api = FALSE /\ m.servers \notin {"up", "draining"}
  BY <1>1, <1>2, OldIs DEF Phased, Memory
<1>7. Stopped(p, m) /\ UNCHANGED <<setup, healthy, lock, schema, boots, faults>>
  BY DEF StopClient, m
<1>8. ~(m.at > 2)
  BY <1>2
<1>9. /\ DaemonInv' /\ \A q \in Proc \ {p} : proc'[q] = proc[q]
      /\ \/ proc'[p].phase = "down"
         \/ proc'[p].servers = m.servers /\ proc'[p].shutting = m.shutting
  BY <1>1, <1>2, <1>5, <1>6, <1>7, <1>8, StoppedKeeps
<1> QED
  BY <1>2, <1>7, <1>9 DEF Daemonic, GoesOn

LEMMA DaemonStepKeeps ==
    ASSUME DaemonInv, NEW p \in Proc, DaemonStep(p)
    PROVE  Daemonic(p)
BY BootKeeps, StartKeeps, StartFailsKeeps, CrashKeeps, ShutdownKeeps, StopDaemonKeeps,
   StopServiceKeeps, UnRegisterKeeps, StopClientKeeps, AcquireKeeps DEF DaemonStep

LEMMA WorldKeeps ==
    ASSUME DaemonInv, World
    PROVE  DaemonInv' /\ UNCHANGED <<setup, proc>>
<1>1. /\ UNCHANGED <<setup, proc, schema, boots>>
      /\ lock' \in [Locks -> Proc \cup {Nobody}]
      /\ healthy' \subseteq Stores
  <2>1. /\ lock \in [Locks -> Proc \cup {Nobody}] /\ healthy \subseteq Stores
        /\ setup.enabled \subseteq Stores
    BY DaemonAssumption DEF DaemonInv, Base
  <2> QED
    BY <2>1 DEF World, Expire, Break, Heal
<1>2. faults' \in 0 .. setup.faults
  BY FaultIs DEF World, Expire, Break, Heal, DaemonInv, Base
<1>3. Base'
  BY <1>1, <1>2 DEF DaemonInv, Base
<1>4. ProcInv'
  BY <1>1 DEF DaemonInv, ProcInv, Phased, Registered, HasWorker, Daemon
<1>5. Migrated'
  BY <1>1 DEF DaemonInv, Migrated
<1> QED
  BY <1>1, <1>3, <1>4, <1>5 DEF DaemonInv

-----------------------------------------------------------------------------
(* Tasks and runs                                                          *)

Going == Stages \cup {"flush"}

Run ==
    [p : Proc, id : Nat, n : Nat \ {0}, stage : Going \cup {"ok", "failed", "panic"},
     ctx : {"live", "deadline", "canceled", "lost"}, staged : Nat, cached : Nat,
     wrote : Nat, notified : BOOLEAN]

Task ==
    [type : {req.type : req \in Requests}, opts : {Options(req) : req \in Requests},
     tries : Nat, failed : Nat, result : Nat, flushed : BOOLEAN, good : SUBSET Nat,
     state : Waiting \cup Final \cup {"active"}]

\* What a run has staged or built is named by its try, and is what it wrote.
Honest(r) ==
    /\ r \in Run /\ {r.staged, r.cached} \subseteq {0, r.n}
    /\ Result(r) = r.wrote
    /\ r.stage # "ok" => r.cached = 0
    /\ r.ctx = "canceled" /\ r.stage = "failed" => r.notified

\* A run lives in its process; a server waits for the runs that are not given up.
Housed(r) ==
    /\ proc[r.p].phase # "down"
    /\ r.ctx = "live" /\ r.id # 0 => proc[r.p].servers \in {"up", "draining"}
    /\ r.ctx = "canceled" => proc[r.p].shutting

\* It is a try of its task, by a handler that is registered.
Belongs(r) ==
    r.id # 0 =>
        /\ r.id \in DOMAIN tasks /\ r.n <= tasks[r.id].tries
        /\ r.stage \in Going => tasks[r.id].type \in DOMAIN Handler

Counted(t) ==
    /\ t \in Task /\ t.failed <= t.opts.retry /\ t.result <= t.tries
    /\ t.good \subseteq 1 .. t.tries
    /\ t.flushed => t.result \in t.good

TasksInv == tasks \in Seq(Task) /\ \A i \in DOMAIN tasks : Counted(tasks[i])

RunsInv == \A r \in runs : Honest(r) /\ Housed(r) /\ Belongs(r)

IndInv ==
    /\ DaemonInv /\ TasksInv /\ RunsInv
    /\ panics \subseteq {"default", "deadline", "canceled", "lost"}

LEMMA OptionsTyped ==
    ASSUME NEW req \in Requests
    PROVE  Options(req).queue \in Queues /\ Options(req).retry \in Nat
<1> DEFINE h == HandlerOpts(req.type)
<1>1. /\ "queue" \in DOMAIN h => h.queue \in Queues
      /\ "retry" \in DOMAIN h => h.retry \in Nat
  <2>1. CASE req.type \in DOMAIN Handler
    <3> DEFINE H == Handler[req.type]
    <3>1. h = [o \in {o \in DOMAIN H : IsSet(o, H[o])} |-> H[o]]
      BY <2>1 DEF HandlerOpts
    <3>2. "queue" \in DOMAIN h => "queue" \in DOMAIN H /\ h.queue = H.queue /\ H.queue # ""
      BY <3>1 DEF IsSet
    <3>3. "retry" \in DOMAIN h => "retry" \in DOMAIN H /\ h.retry = H.retry /\ H.retry >= 0
      BY <3>1 DEF IsSet
    <3>4. /\ "queue" \in DOMAIN H => H.queue \in Queues \cup {""}
          /\ "retry" \in DOMAIN H => H.retry \in Int
      BY <2>1, RequestAssumption
    <3> HIDE DEF h, H
    <3>5. "queue" \in DOMAIN h => h.queue \in Queues
      BY <3>2, <3>4
    <3>6. \A v \in Int : v >= 0 => v \in Nat
      OBVIOUS
    <3>7. "retry" \in DOMAIN h => h.retry \in Nat
      BY <3>3, <3>4, <3>6
    <3> QED
      BY <3>5, <3>7
  <2>2. CASE req.type \notin DOMAIN Handler
    BY <2>2 DEF HandlerOpts
  <2> QED
    BY <2>1, <2>2
<1>2. /\ "queue" \in DOMAIN req.opts => req.opts.queue \in Queues
      /\ "retry" \in DOMAIN req.opts => req.opts.retry \in Nat
  BY RequestAssumption
<1> HIDE DEF h
<1>3. Options(req) = Merge(Default, Merge(h, req.opts))
  BY DEF Options, h
<1>4. Default.queue \in Queues /\ Default.retry \in Nat /\ {"queue", "retry"} \subseteq DOMAIN Default
  BY DEF Default, Queues
<1> QED
  BY <1>1, <1>2, <1>3, <1>4 DEF Merge

\* Tasks stay what they are, and their tries are counted up.
Grows ==
    \A i \in DOMAIN tasks :
        i \in DOMAIN tasks' /\ tasks'[i].type = tasks[i].type /\ tasks[i].tries <= tasks'[i].tries

\* Every task is left as it is or changed into one that is in order.
LEMMA ChangedKeeps ==
    ASSUME TasksInv, tasks' = [i \in DOMAIN tasks |-> tasks'[i]],
           \A i \in DOMAIN tasks :
              /\ Counted(tasks'[i])
              /\ tasks'[i].type = tasks[i].type /\ tasks[i].tries <= tasks'[i].tries
    PROVE  TasksInv' /\ Grows
<1>1. tasks \in Seq(Task) /\ DOMAIN tasks = 1 .. Len(tasks) /\ Len(tasks) \in Nat
  BY DEF TasksInv
<1>2. tasks' \in [1 .. Len(tasks) -> Task]
  <2>1. \A i \in DOMAIN tasks : tasks'[i] \in Task
    BY DEF Counted
  <2> HIDE DEF Task
  <2> QED
    BY <1>1, <2>1
<1>3. tasks' \in Seq(Task) /\ DOMAIN tasks' = DOMAIN tasks
  <2> HIDE DEF Task
  <2> QED
    BY <1>1, <1>2, SeqDef
<1>4. \A i \in DOMAIN tasks : Counted(tasks[i])'
  BY DEF Counted
<1> QED
  BY <1>3, <1>4 DEF TasksInv, Grows

\* One task is changed.
LEMMA AlterKeeps ==
    ASSUME TasksInv, NEW i \in DOMAIN tasks, NEW t, tasks' = [tasks EXCEPT ![i] = t],
           Counted(t), t.type = tasks[i].type, tasks[i].tries <= t.tries
    PROVE  TasksInv' /\ Grows
<1>1. \A j \in DOMAIN tasks : Counted(tasks[j]) /\ tasks[j].tries \in Nat
  BY DEF TasksInv, Counted, Task
<1>2. tasks \in Seq(Task)
  BY DEF TasksInv
<1>3. tasks' = [j \in DOMAIN tasks |-> tasks'[j]] /\ tasks'[i] = t
      /\ \A j \in DOMAIN tasks : j # i => tasks'[j] = tasks[j]
  <2> HIDE DEF Task
  <2> QED
    BY <1>2
<1>4. \A j \in DOMAIN tasks : /\ Counted(tasks'[j])
                              /\ tasks'[j].type = tasks[j].type
                              /\ tasks[j].tries <= tasks'[j].tries
  BY <1>1, <1>3
<1> QED
  BY <1>3, <1>4, ChangedKeeps

LEMMA EnqueueKeeps ==
    ASSUME TasksInv, NEW req \in Requests, Enqueue(req)
    PROVE  TasksInv' /\ Grows
<1> DEFINE t == [type |-> req.type, opts |-> Options(req), tries |-> 0, failed |-> 0,
                 result |-> 0, flushed |-> FALSE, good |-> {},
                 state |-> IF Options(req).delay > 0 THEN "scheduled" ELSE "pending"]
<1>0. tasks \in Seq(Task) /\ \A j \in DOMAIN tasks : Counted(tasks[j]) /\ tasks[j].tries \in Nat
  BY DEF TasksInv, Counted, Task
<1>1. CASE tasks' = tasks
  BY <1>0, <1>1 DEF TasksInv, Grows, Counted
<1>2. CASE tasks' = Append(tasks, t)
  <2>1. t.state \in Waiting
    BY DEF Waiting
  <2>2. t \in Task /\ t.opts = Options(req) /\ t.failed = 0 /\ t.result = 0 /\ t.good = {}
        /\ ~t.flushed
    BY <2>1 DEF Task
  <2>3. Counted(t)
    BY <2>2, OptionsTyped DEF Counted
  <2> HIDE DEF t, Task
  <2>4. /\ tasks' \in Seq(Task) /\ DOMAIN tasks' = 1 .. Len(tasks) + 1
        /\ DOMAIN tasks = 1 .. Len(tasks) /\ Len(tasks) \in Nat
        /\ tasks'[Len(tasks) + 1] = t
        /\ \A j \in DOMAIN tasks : tasks'[j] = tasks[j]
    BY <1>0, <1>2, <2>2
  <2>5. \A j \in DOMAIN tasks' : Counted(tasks'[j])
    BY <1>0, <2>3, <2>4
  <2>6. \A j \in DOMAIN tasks' : Counted(tasks[j])'
    BY <2>5 DEF Counted
  <2> QED
    BY <1>0, <2>4, <2>6 DEF TasksInv, Grows
<1> QED
  BY <1>1, <1>2 DEF Enqueue

\* A process that goes on for the sake of its runs.
Harbors(q) ==
    /\ proc'[q].phase # "down"
    /\ proc[q].servers \in {"up", "draining"} => proc'[q].servers \in {"up", "draining"}
    /\ proc[q].shutting => proc'[q].shutting

LEMMA StaysHoused ==
    ASSUME NEW r \in Run, Housed(r), Harbors(r.p)
    PROVE  Housed(r)'
BY DEF Housed, Harbors

LEMMA StaysIn ==
    ASSUME TasksInv, Grows, NEW r \in Run, Belongs(r), TasksInv'
    PROVE  Belongs(r)'
<1>1. \A i \in DOMAIN tasks : tasks[i].tries \in Nat
  BY DEF TasksInv, Counted, Task
<1>2. \A i \in DOMAIN tasks' : tasks'[i].tries \in Nat
  BY DEF TasksInv, Counted, Task
<1>3. r.n \in Nat /\ r.id \in Nat
  BY DEF Run
<1> QED
  BY <1>1, <1>2, <1>3 DEF Grows, Belongs

\* The new runs are in order, the others are old ones whose processes go on.
LEMMA RunsKeep ==
    ASSUME IndInv, TasksInv', Grows,
           \A s \in runs' : \/ s \in runs /\ Harbors(s.p)
                            \/ Honest(s) /\ Housed(s)' /\ Belongs(s)'
    PROVE  RunsInv'
<1> SUFFICES ASSUME NEW s \in runs'
             PROVE  Honest(s)' /\ Housed(s)' /\ Belongs(s)'
  BY DEF RunsInv
<1>1. Honest(s) => Honest(s)'
  BY DEF Honest, Result
<1>2. CASE s \in runs /\ Harbors(s.p)
  <2>1. Honest(s) /\ Housed(s) /\ Belongs(s) /\ s \in Run
    BY <1>2 DEF IndInv, RunsInv, Honest
  <2>2. TasksInv
    BY DEF IndInv
  <2> QED
    BY <1>1, <1>2, <2>1, <2>2, StaysHoused, StaysIn
<1>3. CASE Honest(s) /\ Housed(s)' /\ Belongs(s)'
  BY <1>1, <1>3
<1> QED
  BY <1>2, <1>3

\* A step of tasks and runs that no process sees.
LEMMA InsideKeeps ==
    ASSUME IndInv, UNCHANGED daemonVars, TasksInv', Grows,
           \A s \in runs' \ runs : Honest(s) /\ Housed(s) /\ Belongs(s)',
           panics' \subseteq {"default", "deadline", "canceled", "lost"}
    PROVE  IndInv'
<1>1. DaemonInv'
  <2>1. /\ setup' = setup /\ proc' = proc /\ healthy' = healthy /\ lock' = lock
        /\ schema' = schema /\ boots' = boots /\ faults' = faults
    BY DEF daemonVars
  <2>2. Base' /\ Migrated'
    BY <2>1 DEF IndInv, DaemonInv, Base, Migrated
  <2>3. ProcInv'
    BY <2>1 DEF IndInv, DaemonInv, ProcInv, Phased, Registered, HasWorker, Daemon
  <2> QED
    BY <2>2, <2>3 DEF DaemonInv
<1>2. proc' = proc
  BY DEF daemonVars
<1>3. \A s \in runs : Harbors(s.p)
  BY <1>2 DEF IndInv, RunsInv, Housed, Harbors
<1>4. \A s \in runs' \ runs : Housed(s)'
  BY <1>2 DEF Housed
<1>5. RunsInv'
  BY <1>3, <1>4, RunsKeep
<1> QED
  BY <1>1, <1>5 DEF IndInv

LEMMA SameTasks ==
    ASSUME TasksInv, tasks' = tasks
    PROVE  TasksInv' /\ Grows
<1>1. \A i \in DOMAIN tasks : tasks[i].tries \in Nat
  BY DEF TasksInv, Counted, Task
<1>2. TasksInv'
  BY DEF TasksInv, Counted
<1>3. Grows
  BY <1>1 DEF Grows
<1> QED
  BY <1>2, <1>3

\* What is known of a run and of its task.
LEMMA RunIs ==
    ASSUME IndInv, NEW r \in runs
    PROVE  /\ r \in Run /\ Honest(r) /\ Housed(r) /\ Belongs(r)
           /\ r.p \in Proc /\ r.n \in Nat /\ r.n # 0 /\ r.id \in Nat
           /\ r.id # 0 => r.id \in DOMAIN tasks /\ Counted(tasks[r.id]) /\ tasks[r.id] \in Task
<1>1. r \in Run /\ Honest(r) /\ Housed(r) /\ Belongs(r)
  BY DEF IndInv, RunsInv, Honest
<1>2. r.id # 0 => r.id \in DOMAIN tasks /\ Counted(tasks[r.id]) /\ tasks[r.id] \in Task
  BY <1>1 DEF IndInv, TasksInv, Belongs, Counted
<1> QED
  BY <1>1, <1>2 DEF Run

LEMMA NextIs ==
    /\ NextStage("before") = "run" /\ NextStage("run") = "after"
    /\ NextStage("after") = "flush" /\ NextStage("flush") = "ok"
BY DEF NextStage

-----------------------------------------------------------------------------
(* Submission                                                              *)

LEMMA SubmitKeeps ==
    ASSUME IndInv, NEW p \in Proc, NEW req \in setup.requests, Submit(p, req)
    PROVE  IndInv'
<1>1. req \in Requests
  BY RequestAssumption DEF Requests, IndInv, DaemonInv, Base
<1>2. TasksInv /\ runs' = runs /\ UNCHANGED daemonVars
  BY DEF IndInv, Submit
<1>3. CASE proc[p].client
  BY <1>1, <1>2, <1>3, EnqueueKeeps, InsideKeeps DEF Submit, IndInv
<1>4. CASE ~proc[p].client
  <2>1. setup.mode[p] = "default"
    <3>1. DaemonInv
      BY DEF IndInv
    <3>2. Phased(p, proc[p]) /\ proc[p].api
      BY <3>1, OldIs DEF Submit
    <3>3. proc[p].at >= 3 /\ setup.mode[p] \in {"api", "default"} /\ proc[p].at \in Nat
      BY <3>1, <3>2, OldIs DEF Phased
    <3>4. proc[p].at >= 2
      BY <3>3
    <3> QED
      BY <1>4, <3>2, <3>3, <3>4 DEF Phased, HasWorker
  <2>2. panics' = panics \cup {"default"} /\ tasks' = tasks
    BY <1>4, <2>1 DEF Submit
  <2> QED
    BY <1>2, <2>2, SameTasks, InsideKeeps DEF IndInv
<1> QED
  BY <1>3, <1>4

LEMMA CronKeeps ==
    ASSUME IndInv, NEW p \in Proc, CronFires(p)
    PROVE  IndInv'
<1>1. Cron \in Requests
  BY RequestAssumption DEF Requests
<1>2. TasksInv /\ runs' = runs /\ UNCHANGED daemonVars /\ panics' = panics
  BY DEF IndInv, CronFires
<1> QED
  BY <1>1, <1>2, EnqueueKeeps, InsideKeeps DEF IndInv, CronFires

-----------------------------------------------------------------------------
(* Runs                                                                    *)

LEMMA NewRunIs ==
    ASSUME NEW p \in Proc, NEW id \in Nat, NEW n \in Nat \ {0}, NEW known \in BOOLEAN,
           NEW r, r = NewRun(p, id, n, known)
    PROVE  /\ Honest(r) /\ r.p = p /\ r.id = id /\ r.n = n /\ r.ctx = "live"
           /\ r.stage \in Going => known
<1>1. /\ r.p = p /\ r.id = id /\ r.n = n /\ r.ctx = "live" /\ r.staged = 0 /\ r.cached = 0
      /\ r.wrote = 0 /\ r.notified = FALSE
      /\ r.stage = IF known THEN "before" ELSE "failed"
  BY DEF NewRun
<1>2. r \in Run
  BY DEF NewRun, Run, Going, Stages
<1>3. Honest(r)
  BY <1>1, <1>2 DEF Honest, Result
<1> QED
  BY <1>1, <1>3 DEF Going, Stages

LEMMA TakeKeeps ==
    ASSUME IndInv, NEW p \in Proc, NEW i \in DOMAIN tasks, Take(p, i)
    PROVE  IndInv'
<1> DEFINE n == tasks[i].tries + 1
           known == proc[p].handlers /\ tasks[i].type \in DOMAIN Handler
           t == [tasks[i] EXCEPT !.state = "active", !.tries = n]
<1>1. tasks[i] \in Task /\ Counted(tasks[i]) /\ TasksInv /\ i \in Nat /\ i # 0
  BY DEF IndInv, TasksInv, Counted
<1>2. tasks[i].tries \in Nat /\ n \in Nat \ {0} /\ tasks[i].tries <= n
  BY <1>1 DEF Task
<1>3. /\ t \in Task /\ t.tries = n /\ t.failed = tasks[i].failed /\ t.opts = tasks[i].opts
      /\ t.result = tasks[i].result /\ t.good = tasks[i].good /\ t.type = tasks[i].type
      /\ t.flushed = tasks[i].flushed
  BY <1>1, <1>2 DEF Task
<1>4. Counted(t)
  <2>1. \A g \in 1 .. tasks[i].tries : g \in 1 .. n
    BY <1>2
  <2>2. tasks[i].result <= n
    BY <1>1, <1>2 DEF Counted, Task
  <2> HIDE DEF t, n
  <2> QED
    BY <1>1, <1>3, <2>1, <2>2 DEF Counted
<1>5. tasks' = [tasks EXCEPT ![i] = t]
  BY DEF Take
<1>6. TasksInv' /\ Grows
  <2> HIDE DEF t, n
  <2> QED
    BY <1>1, <1>2, <1>3, <1>4, <1>5, AlterKeeps
<1>0. PICK r : r = NewRun(p, i, n, known)
  OBVIOUS
<1>7. /\ runs' = runs \cup {r} /\ UNCHANGED daemonVars /\ panics' = panics
      /\ proc[p].servers = "up"
  BY <1>0 DEF Take, Serves
<1>8. /\ Honest(r) /\ r.p = p /\ r.id = i /\ r.n = n /\ r.ctx = "live"
      /\ r.stage \in Going => known
  <2>1. known \in BOOLEAN
    <3>1. proc[p].handlers \in BOOLEAN
      BY OldIs DEF IndInv, Memory
    <3> QED
      BY <3>1
  <2> HIDE DEF n, known
  <2> QED
    BY <1>0, <1>1, <1>2, <2>1, NewRunIs
<1>9. Housed(r)
  <2>1. DaemonInv
    BY DEF IndInv
  <2>2. proc[p].phase # "down"
    BY <1>7, <2>1, OldIs DEF Phased, Down
  <2> QED
    BY <1>7, <1>8, <2>2 DEF Housed
<1>10. Belongs(r)'
  <2>1. tasks'[i] = t /\ i \in DOMAIN tasks'
    BY <1>5
  <2>2. tasks'[i].type = tasks[i].type /\ tasks'[i].tries = n
    BY <1>3, <2>1
  <2>3. r.stage \in Going => tasks'[i].type \in DOMAIN Handler
    BY <1>8, <2>2
  <2> HIDE DEF n
  <2> QED
    BY <1>2, <1>8, <2>1, <2>2, <2>3 DEF Belongs
<1> QED
  BY <1>6, <1>7, <1>8, <1>9, <1>10, InsideKeeps DEF IndInv

LEMMA ExecuteKeeps ==
    ASSUME IndInv, NEW p \in Proc, Execute(p)
    PROVE  IndInv'
<1> DEFINE known == TRUE
           r == NewRun(p, 0, 1, known)
<1>1. Honest(r) /\ r.p = p /\ r.id = 0 /\ r.ctx = "live"
  <2>1. r = NewRun(p, 0, 1, known) /\ 0 \in Nat /\ 1 \in Nat \ {0} /\ known \in BOOLEAN
    OBVIOUS
  <2> HIDE DEF r, known
  <2> QED
    BY <2>1, NewRunIs
<1>2. /\ runs' = runs \cup {r} /\ UNCHANGED daemonVars /\ panics' = panics /\ tasks' = tasks
      /\ proc[p].api
  BY DEF Execute
<1> HIDE DEF r
<1>3. Housed(r)
  <2>1. DaemonInv
    BY DEF IndInv
  <2>2. proc[p].phase # "down"
    BY <1>2, <2>1, OldIs DEF Phased, Down
  <2> QED
    BY <1>1, <2>2 DEF Housed
<1>4. Belongs(r)'
  BY <1>1 DEF Belongs
<1> QED
  BY <1>1, <1>2, <1>3, <1>4, SameTasks, InsideKeeps DEF IndInv

\* A run goes on as s.
LEMMA BecomesKeeps ==
    ASSUME IndInv, NEW r \in runs, NEW s, Becomes(r, s), UNCHANGED daemonVars,
           TasksInv', Grows, Honest(s), s.p = r.p, s.id = r.id, s.n = r.n,
           s.ctx \in {r.ctx, "deadline"}, s.stage \in Going => r.stage \in Going,
           panics' \subseteq {"default", "deadline", "canceled", "lost"}
    PROVE  IndInv'
<1>1. Housed(s)
  BY RunIs DEF Housed
<1>2. Belongs(r)'
  BY RunIs, StaysIn DEF IndInv
<1>3. Belongs(s)'
  BY <1>2 DEF Belongs
<1>4. runs' \ runs \subseteq {s}
  BY DEF Becomes
<1> QED
  BY <1>1, <1>3, <1>4, InsideKeeps

\* The try that comes to its end is a good one, and stores its own result.
LEMMA GoesTasks ==
    ASSUME IndInv, NEW r \in runs, r.stage \in Going, NEW s, Goes(r, s)
    PROVE  TasksInv' /\ Grows
<1>1. TasksInv
  BY DEF IndInv
<1>2. CASE r.id = 0
  BY <1>1, <1>2, SameTasks DEF Goes
<1>3. CASE r.id # 0
  <2> DEFINE old == tasks[r.id]
             next == NextStage(r.stage)
             flushes == r.stage = "flush" /\ r.staged # 0 /\ Writes(r)
             g == IF next = "ok" THEN old.good \cup {r.n} ELSE old.good
             v == IF flushes THEN Result(r) ELSE old.result
  <2>1. r.id \in DOMAIN tasks /\ old \in Task /\ Counted(old) /\ r.n <= old.tries
        /\ r.n \in Nat /\ r.n # 0 /\ old.tries \in Nat
    BY <1>3, RunIs DEF Task, Belongs
  <2>0. PICK f \in BOOLEAN : f = (old.flushed \/ flushes)
    BY <2>1 DEF Task
  <2>a. PICK t : t = [old EXCEPT !.good = g, !.result = v, !.flushed = f]
    OBVIOUS
  <2>2. tasks' = [tasks EXCEPT ![r.id] = t]
    BY <1>3, <2>0, <2>1, <2>a DEF Goes
  <2>3. g \subseteq 1 .. old.tries /\ old.good \subseteq g
    BY <2>1 DEF Counted
  <2>4. flushes => v = r.n /\ r.n \in g
    <3>1. flushes => Result(r) = r.n
      BY RunIs DEF Honest, Result, Writes
    <3>2. flushes => r.n \in g
      BY NextIs
    <3> QED
      BY <3>1, <3>2
  <2>b. ~flushes => v = old.result
    OBVIOUS
  <2> HIDE DEF g, v, next, flushes
  <2>5. v \in Nat /\ v <= old.tries /\ (f => v \in g)
    <3>1. CASE flushes
      BY <2>1, <2>4, <3>1
    <3>2. CASE ~flushes
      BY <2>0, <2>1, <2>3, <2>b, <3>2 DEF Counted, Task
    <3> QED
      BY <3>1, <3>2
  <2>6. g \in SUBSET Nat
    BY <2>1, <2>3
  <2>7. /\ t \in Task /\ t.good = g /\ t.result = v /\ t.flushed = f /\ t.type = old.type
        /\ t.tries = old.tries /\ t.failed = old.failed /\ t.opts = old.opts
    BY <2>0, <2>1, <2>5, <2>6, <2>a DEF Task
  <2>8. Counted(t)
    BY <2>1, <2>3, <2>5, <2>7 DEF Counted
  <2>9. old.tries <= t.tries
    BY <2>1, <2>7
  <2> QED
    BY <1>1, <2>1, <2>2, <2>7, <2>8, <2>9, AlterKeeps
<1> QED
  BY <1>2, <1>3

LEMMA GoesKeeps ==
    ASSUME IndInv, NEW r \in runs, r.stage \in Going, NEW s \in Run, Goes(r, s),
           UNCHANGED daemonVars, panics' = panics,
           s.p = r.p, s.id = r.id, s.n = r.n, s.ctx = r.ctx,
           {s.staged, s.cached} \subseteq {0, s.n}, Result(s) = s.wrote,
           r.stage # "flush" => s.cached = 0
    PROVE  IndInv'
<1>1. PICK u : u = [s EXCEPT !.stage = NextStage(r.stage)]
  OBVIOUS
<1>2. /\ NextStage(r.stage) \in {"run", "after", "flush", "ok"}
      /\ r.stage = "flush" => NextStage(r.stage) = "ok"
  BY NextIs DEF Going, Stages
<1>3. /\ u \in Run /\ u.p = s.p /\ u.id = s.id /\ u.n = s.n /\ u.ctx = s.ctx
      /\ u.staged = s.staged /\ u.cached = s.cached /\ u.wrote = s.wrote
      /\ u.stage = NextStage(r.stage)
  BY <1>1, <1>2 DEF Run, Going, Stages
<1>4. Honest(u)
  BY <1>2, <1>3 DEF Honest, Result
<1>5. Becomes(r, u)
  BY <1>1 DEF Goes
<1>6. TasksInv' /\ Grows
  BY GoesTasks
<1> QED
  BY <1>3, <1>4, <1>5, <1>6, BecomesKeeps DEF IndInv

LEMMA SucceedKeeps ==
    ASSUME IndInv, NEW r \in runs, Succeed(r)
    PROVE  IndInv'
<1>1. r.stage \in Going /\ r.stage # "flush" /\ UNCHANGED daemonVars /\ panics' = panics
  BY DEF Succeed, Going, Stages
<1>2. /\ r \in Run /\ {r.staged, r.cached} \subseteq {0, r.n} /\ Result(r) = r.wrote
      /\ r.cached = 0
  BY <1>1, RunIs DEF Honest, Going, Stages
<1>3. CASE Goes(r, r)
  BY <1>1, <1>2, <1>3, GoesKeeps
<1>4. CASE Goes(r, [r EXCEPT !.staged = r.n, !.wrote = r.n])
  <2>1. PICK s : s = [r EXCEPT !.staged = r.n, !.wrote = r.n]
    OBVIOUS
  <2>2. /\ s \in Run /\ s.p = r.p /\ s.id = r.id /\ s.n = r.n /\ s.ctx = r.ctx
        /\ s.staged = r.n /\ s.cached = r.cached /\ s.wrote = r.n
    BY <1>2, <2>1 DEF Run
  <2>3. Result(s) = s.wrote
    BY <1>2, <2>2 DEF Result
  <2> QED
    BY <1>1, <1>2, <1>4, <2>1, <2>2, <2>3, GoesKeeps
<1> QED
  BY <1>3, <1>4 DEF Succeed

LEMMA FlushKeeps ==
    ASSUME IndInv, NEW r \in runs, FlushResult(r)
    PROVE  IndInv'
<1>1. r.stage = "flush" /\ r.stage \in Going /\ UNCHANGED daemonVars /\ panics' = panics
  BY DEF FlushResult, Going
<1>2. /\ r \in Run /\ {r.staged, r.cached} \subseteq {0, r.n} /\ Result(r) = r.wrote
      /\ r.cached = 0
  BY <1>1, RunIs DEF Honest
<1>3. CASE r.staged = 0
  BY <1>1, <1>2, <1>3, GoesKeeps DEF FlushResult
<1>4. CASE r.staged # 0
  <2>1. PICK s : s = [r EXCEPT !.staged = 0, !.cached = Result(r)]
    OBVIOUS
  <2>2. Result(r) = r.n /\ r.n \in Nat \ {0}
    BY <1>2, <1>4 DEF Result, Run
  <2>3. /\ s \in Run /\ s.p = r.p /\ s.id = r.id /\ s.n = r.n /\ s.ctx = r.ctx
        /\ s.staged = 0 /\ s.cached = r.n /\ s.wrote = r.wrote
    BY <1>2, <2>1, <2>2 DEF Run
  <2>4. Result(s) = s.wrote
    BY <1>2, <2>2, <2>3 DEF Result
  <2>5. Goes(r, s)
    BY <1>4, <2>1 DEF FlushResult
  <2> QED
    BY <1>1, <1>2, <2>3, <2>4, <2>5, GoesKeeps
<1> QED
  BY <1>3, <1>4

LEMMA WriteKeeps ==
    ASSUME IndInv, NEW r \in runs, Write(r)
    PROVE  IndInv'
<1>1. /\ UNCHANGED daemonVars /\ runs' = runs /\ panics' = panics
      /\ tasks' = [tasks EXCEPT ![r.id].result = r.n, ![r.id].flushed = FALSE]
      /\ r.id # 0
  BY DEF Write, Writes
<1>2. /\ r.id \in DOMAIN tasks /\ tasks[r.id] \in Task /\ Counted(tasks[r.id])
      /\ r.n <= tasks[r.id].tries /\ r.n \in Nat /\ tasks[r.id].tries \in Nat
  BY <1>1, RunIs DEF Belongs, Task
<1>3. PICK t : t = [tasks[r.id] EXCEPT !.result = r.n, !.flushed = FALSE]
  OBVIOUS
<1>4. /\ t \in Task /\ t.result = r.n /\ t.flushed = FALSE /\ t.good = tasks[r.id].good
      /\ t.type = tasks[r.id].type /\ t.tries = tasks[r.id].tries
      /\ t.failed = tasks[r.id].failed /\ t.opts = tasks[r.id].opts
  BY <1>2, <1>3 DEF Task
<1>5. tasks' = [tasks EXCEPT ![r.id] = t]
  BY <1>1, <1>3
<1>6. Counted(t) /\ tasks[r.id].tries <= t.tries
  BY <1>2, <1>4 DEF Counted
<1>7. TasksInv' /\ Grows
  BY <1>2, <1>4, <1>5, <1>6, AlterKeeps DEF IndInv
<1> QED
  BY <1>1, <1>7, InsideKeeps DEF IndInv

\* A cancelled run that fails is reported: the shutdown was known before it was
\* cancelled.
LEMMA FailKeeps ==
    ASSUME IndInv, NEW r \in runs, Fail(r)
    PROVE  IndInv'
<1>1. /\ r.stage \in Stages /\ UNCHANGED daemonVars /\ panics' = panics /\ tasks' = tasks
      /\ r.stage \in Going
  BY DEF Fail, Going
<1>2. PICK err \in {"canceled", "other"},
           n \in {r.wrote} \cup IF r.stage = "run" THEN {r.n} ELSE {} :
           Becomes(r, [r EXCEPT !.stage = "failed", !.staged = n, !.wrote = n,
                                !.notified = CanceledByShutdown(r, err)])
  BY DEF Fail
<1>3. PICK c \in BOOLEAN : c = CanceledByShutdown(r, err)
  <2>1. proc[r.p].shutting \in BOOLEAN
    BY OldIs, RunIs DEF IndInv, Memory
  <2> QED
    BY <2>1 DEF CanceledByShutdown
<1>4. PICK s : s = [r EXCEPT !.stage = "failed", !.staged = n, !.wrote = n, !.notified = c]
  OBVIOUS
<1>5. /\ r \in Run /\ {r.staged, r.cached} \subseteq {0, r.n} /\ Result(r) = r.wrote
      /\ r.cached = 0 /\ r.n \in Nat
  BY <1>1, RunIs DEF Honest, Stages
<1>6. n \in {0, r.n}
  BY <1>2, <1>5 DEF Result
<1>7. /\ s \in Run /\ s.p = r.p /\ s.id = r.id /\ s.n = r.n /\ s.ctx = r.ctx
      /\ s.staged = n /\ s.cached = 0 /\ s.wrote = n /\ s.stage = "failed" /\ s.notified = c
  BY <1>4, <1>5, <1>6 DEF Run
<1>8. r.ctx = "canceled" => c
  BY <1>3, RunIs DEF Housed, CanceledByShutdown
<1>9. Honest(s)
  BY <1>5, <1>6, <1>7, <1>8 DEF Honest, Result
<1>10. Becomes(r, s)
  BY <1>2, <1>3, <1>4
<1> QED
  BY <1>1, <1>7, <1>9, <1>10, SameTasks, BecomesKeeps DEF IndInv

LEMMA ReturnsKeeps ==
    ASSUME IndInv, NEW r \in runs, Returns(r)
    PROVE  IndInv'
<1>1. runs' \subseteq runs /\ UNCHANGED daemonVars /\ panics' = panics /\ tasks' = tasks
  BY DEF Returns
<1> QED
  BY <1>1, SameTasks, InsideKeeps DEF IndInv

\* Only a run that was given up finds the client gone: its server has waited.
LEMMA DispatchKeeps ==
    ASSUME IndInv, NEW r \in runs, SelfDispatch(r)
    PROVE  IndInv'
<1>1. /\ r.stage = "run" /\ r.stage \in Going /\ r.id # 0 /\ UNCHANGED daemonVars
      /\ Child[tasks[r.id].type] # NoRequest
  BY DEF SelfDispatch, Going, Stages
<1>2. Child[tasks[r.id].type] \in Requests
  <2>1. tasks[r.id].type \in DOMAIN Child
    BY <1>1, RunIs, RequestAssumption DEF Belongs
  <2>2. \A x \in DOMAIN Child : Child[x] \in {Child[type] : type \in DOMAIN Child}
    OBVIOUS
  <2>3. \A x \in DOMAIN Child : Child[x] # NoRequest => Child[x] \in Requests
    BY <2>2 DEF Requests
  <2> QED
    BY <1>1, <2>1, <2>3
<1>3. CASE proc[r.p].client
  <2>1. Enqueue(Child[tasks[r.id].type]) /\ runs' = runs /\ panics' = panics
    BY <1>3 DEF SelfDispatch
  <2> QED
    BY <1>1, <1>2, <2>1, EnqueueKeeps, InsideKeeps DEF IndInv
<1>4. CASE ~proc[r.p].client
  <2>1. /\ panics' = panics \cup {r.ctx} /\ tasks' = tasks
        /\ Becomes(r, [r EXCEPT !.stage = "panic"])
    BY <1>4 DEF SelfDispatch
  <2>2. PICK s : s = [r EXCEPT !.stage = "panic"]
    OBVIOUS
  <2>3. r \in Run /\ r.ctx \in {"live", "deadline", "canceled", "lost"} /\ r.p \in Proc
    BY RunIs DEF Run
  <2>4. r.ctx # "live"
    <3>1. SUFFICES ASSUME r.ctx = "live" PROVE FALSE
      OBVIOUS
    <3>2. DaemonInv
      BY DEF IndInv
    <3>3. proc[r.p].servers \in {"up", "draining"}
      BY <1>1, <3>1, RunIs DEF Housed
    <3>4. proc[r.p].at >= 3 /\ HasWorker(r.p) /\ proc[r.p].at \in Nat
      BY <2>3, <3>2, <3>3, OldIs DEF Phased, HasWorker
    <3>5. proc[r.p].client
      BY <2>3, <3>2, <3>4, OldIs DEF Phased
    <3> QED
      BY <1>4, <3>5
  <2>5. /\ s \in Run /\ s.p = r.p /\ s.id = r.id /\ s.n = r.n /\ s.ctx = r.ctx
        /\ s.staged = r.staged /\ s.cached = r.cached /\ s.wrote = r.wrote /\ s.stage = "panic"
    BY <2>2, <2>3 DEF Run
  <2>6. Honest(s)
    BY <1>1, <2>5, RunIs DEF Honest, Result
  <2>7. Becomes(r, s) /\ s.stage \notin Going
    BY <2>1, <2>2, <2>5 DEF Going, Stages
  <2>8. panics' \subseteq {"default", "deadline", "canceled", "lost"}
    BY <2>1, <2>3, <2>4 DEF IndInv
  <2> QED
    BY <1>1, <2>1, <2>5, <2>6, <2>7, <2>8, SameTasks, BecomesKeeps DEF IndInv
<1> QED
  BY <1>3, <1>4

\* asynq counts a failure, as often as the task may be retried.
LEMMA FailedIs ==
    ASSUME NEW t \in Task, Counted(t)
    PROVE  Counted(Failed(t)) /\ Failed(t).type = t.type /\ Failed(t).tries = t.tries
<1>1. t.opts.retry \in Nat /\ t.failed \in Nat
  BY OptionsTyped DEF Task
<1>2. CASE t.failed < t.opts.retry
  <2>1. PICK u : u = [t EXCEPT !.state = "retry", !.failed = @ + 1]
    OBVIOUS
  <2>2. t.failed + 1 \in Nat /\ t.failed + 1 <= t.opts.retry
    BY <1>1, <1>2
  <2>3. /\ u \in Task /\ u.type = t.type /\ u.tries = t.tries /\ u.opts = t.opts
        /\ u.good = t.good /\ u.result = t.result /\ u.failed = t.failed + 1
        /\ u.flushed = t.flushed
    BY <2>1, <2>2 DEF Task, Waiting
  <2>4. Failed(t) = u
    BY <1>2, <2>1 DEF Failed
  <2> QED
    BY <2>2, <2>3, <2>4 DEF Counted
<1>3. CASE ~(t.failed < t.opts.retry)
  <2>1. PICK u : u = [t EXCEPT !.state = "archived"]
    OBVIOUS
  <2>2. /\ u \in Task /\ u.type = t.type /\ u.tries = t.tries /\ u.opts = t.opts
        /\ u.good = t.good /\ u.result = t.result /\ u.failed = t.failed
        /\ u.flushed = t.flushed
    BY <2>1 DEF Task, Final
  <2>3. Failed(t) = u
    BY <1>3, <2>1 DEF Failed
  <2> QED
    BY <2>2, <2>3 DEF Counted
<1> QED
  BY <1>2, <1>3

\* A change of state leaves what is counted.
LEMMA StateIs ==
    ASSUME NEW t \in Task, Counted(t), NEW st \in Waiting \cup Final \cup {"active"},
           NEW u, u = [t EXCEPT !.state = st]
    PROVE  Counted(u) /\ u.type = t.type /\ u.tries = t.tries
<1>2. /\ u \in Task /\ u.type = t.type /\ u.tries = t.tries /\ u.opts = t.opts
      /\ u.good = t.good /\ u.result = t.result /\ u.failed = t.failed
      /\ u.flushed = t.flushed
  BY DEF Task
<1>3. Counted(u)
  BY <1>2 DEF Counted
<1> QED
  BY <1>2, <1>3

\* One task has failed, or changed its state.
LEMMA OneChanges ==
    ASSUME TasksInv, NEW i \in DOMAIN tasks, NEW t, tasks' = [tasks EXCEPT ![i] = t],
           t = Failed(tasks[i]) \/
               \E st \in Waiting \cup Final \cup {"active"} : t = [tasks[i] EXCEPT !.state = st]
    PROVE  TasksInv' /\ Grows
<1>1. tasks[i] \in Task /\ Counted(tasks[i]) /\ tasks[i].tries \in Nat
  BY DEF TasksInv, Counted, Task
<1>2. Counted(t) /\ t.type = tasks[i].type /\ t.tries = tasks[i].tries
  <2>1. CASE t = Failed(tasks[i])
    BY <1>1, <2>1, FailedIs
  <2>2. CASE \E st \in Waiting \cup Final \cup {"active"} : t = [tasks[i] EXCEPT !.state = st]
    BY <1>1, <2>2, StateIs
  <2> QED
    BY <2>1, <2>2
<1>3. tasks[i].tries <= t.tries
  BY <1>1, <1>2
<1> QED
  BY <1>2, <1>3, AlterKeeps

LEMMA OutcomeKeeps ==
    ASSUME IndInv, NEW r \in runs, Outcome(r)
    PROVE  IndInv'
<1>1. r.id # 0 /\ runs' \subseteq runs /\ UNCHANGED daemonVars /\ panics' = panics
  BY DEF Outcome
<1>2. r.id \in DOMAIN tasks /\ TasksInv
  BY <1>1, RunIs DEF IndInv
<1>3. TasksInv' /\ Grows
  <2>1. CASE tasks' = tasks
    BY <1>2, <2>1, SameTasks
  <2>2. CASE tasks' # tasks
    <3>1. PICK t : /\ tasks' = [tasks EXCEPT ![r.id] = t]
                   /\ t = [tasks[r.id] EXCEPT !.state = "done"] \/ t = Failed(tasks[r.id])
      BY <2>2 DEF Outcome
    <3>2. "done" \in Waiting \cup Final \cup {"active"}
      BY DEF Final
    <3> QED
      BY <1>2, <3>1, <3>2, OneChanges
  <2> QED
    BY <2>1, <2>2
<1> QED
  BY <1>1, <1>3, InsideKeeps DEF IndInv

LEMMA DeadlineKeeps ==
    ASSUME IndInv, NEW r \in runs, Deadline(r)
    PROVE  IndInv'
<1>1. /\ r.stage \in Going /\ UNCHANGED daemonVars /\ panics' = panics
      /\ Becomes(r, [r EXCEPT !.ctx = "deadline"])
  BY DEF Deadline, Going
<1>2. TasksInv' /\ Grows
  <2>1. CASE tasks' = tasks
    BY <2>1, SameTasks DEF IndInv
  <2>2. CASE tasks' # tasks
    <3>1. r.id # 0 /\ tasks' = [tasks EXCEPT ![r.id] = Failed(tasks[r.id])]
      BY <2>2 DEF Deadline
    <3>2. r.id \in DOMAIN tasks /\ TasksInv
      BY <3>1, RunIs DEF IndInv
    <3> QED
      BY <3>1, <3>2, OneChanges
  <2> QED
    BY <2>1, <2>2
<1>3. PICK s : s = [r EXCEPT !.ctx = "deadline"]
  OBVIOUS
<1>4. /\ s \in Run /\ s.p = r.p /\ s.id = r.id /\ s.n = r.n /\ s.ctx = "deadline"
      /\ s.staged = r.staged /\ s.cached = r.cached /\ s.wrote = r.wrote /\ s.stage = r.stage
  BY <1>3, RunIs DEF Run
<1>5. Honest(s)
  BY <1>4, RunIs DEF Honest, Result
<1> QED
  BY <1>1, <1>2, <1>3, <1>4, <1>5, BecomesKeeps DEF IndInv

LEMMA DueKeeps ==
    ASSUME IndInv, NEW i \in DOMAIN tasks, Due(i)
    PROVE  IndInv'
<1>1. runs' = runs /\ UNCHANGED daemonVars /\ panics' = panics /\ TasksInv
  BY DEF Due, IndInv
<1>2. PICK t : /\ tasks' = [tasks EXCEPT ![i] = t]
               /\ t = [tasks[i] EXCEPT !.state = "pending"] \/ t = Failed(tasks[i])
  BY DEF Due
<1>3. "pending" \in Waiting \cup Final \cup {"active"}
  BY DEF Waiting
<1>4. TasksInv' /\ Grows
  BY <1>1, <1>2, <1>3, OneChanges
<1> QED
  BY <1>1, <1>4, InsideKeeps DEF IndInv

-----------------------------------------------------------------------------
(* Servers and processes that stop                                         *)

\* Some tasks change their state.
LEMMA StatesKeep ==
    ASSUME TasksInv, tasks' = [i \in DOMAIN tasks |-> tasks'[i]],
           \A i \in DOMAIN tasks :
              \/ tasks'[i] = tasks[i]
              \/ \E st \in Waiting \cup Final \cup {"active"} :
                    tasks'[i] = [tasks[i] EXCEPT !.state = st]
    PROVE  TasksInv' /\ Grows
<1>1. ASSUME NEW i \in DOMAIN tasks
      PROVE  /\ Counted(tasks'[i]) /\ tasks'[i].type = tasks[i].type
             /\ tasks[i].tries <= tasks'[i].tries
  <2>1. tasks[i] \in Task /\ Counted(tasks[i]) /\ tasks[i].tries \in Nat
    BY DEF TasksInv, Counted, Task
  <2>2. CASE tasks'[i] = tasks[i]
    BY <2>1, <2>2
  <2>3. CASE \E st \in Waiting \cup Final \cup {"active"} : tasks'[i] = [tasks[i] EXCEPT !.state = st]
    <3>1. /\ Counted(tasks'[i]) /\ tasks'[i].type = tasks[i].type
          /\ tasks'[i].tries = tasks[i].tries
      BY <2>1, <2>3, StateIs
    <3> QED
      BY <2>1, <3>1
  <2> QED
    BY <2>2, <2>3
<1> QED
  BY <1>1, ChangedKeeps

LEMMA DeleteKeeps ==
    ASSUME TasksInv, NEW p \in Proc, tasks' = DeleteAllScheduled(p)
    PROVE  TasksInv' /\ Grows
<1>1. CASE tasks' = tasks
  BY <1>1, SameTasks
<1>2. CASE tasks' # tasks
  <2>1. tasks' = [i \in DOMAIN tasks |-> IF tasks[i].state = "scheduled"
                          THEN [tasks[i] EXCEPT !.state = "deleted"] ELSE tasks[i]]
    BY <1>2 DEF DeleteAllScheduled
  <2>2. "deleted" \in Waiting \cup Final \cup {"active"}
    BY DEF Final
  <2>3. tasks' = [i \in DOMAIN tasks |-> tasks'[i]]
    BY <2>1
  <2>4. \A i \in DOMAIN tasks :
          \/ tasks'[i] = tasks[i]
          \/ \E st \in Waiting \cup Final \cup {"active"} :
                tasks'[i] = [tasks[i] EXCEPT !.state = st]
    BY <2>1, <2>2
  <2> QED
    BY <2>3, <2>4, StatesKeep
<1> QED
  BY <1>1, <1>2

LEMMA GiveUpTasks ==
    ASSUME TasksInv, NEW rs, NEW ctx, GiveUp(rs, ctx)
    PROVE  TasksInv' /\ Grows
<1>1. tasks' = [i \in DOMAIN tasks |->
                  IF Up("redis") /\ \E r \in rs : r.id = i
                  THEN [tasks[i] EXCEPT !.state = "pending"] ELSE tasks[i]]
  BY DEF GiveUp
<1>2. "pending" \in Waiting \cup Final \cup {"active"}
  BY DEF Waiting
<1>3. tasks' = [i \in DOMAIN tasks |-> tasks'[i]]
  BY <1>1
<1>4. \A i \in DOMAIN tasks :
        \/ tasks'[i] = tasks[i]
        \/ \E st \in Waiting \cup Final \cup {"active"} :
              tasks'[i] = [tasks[i] EXCEPT !.state = st]
  BY <1>1, <1>2
<1> QED
  BY <1>3, <1>4, StatesKeep

\* The runs after GiveUp: the others, and those that were in their handler.
LEMMA GiveUpRuns ==
    ASSUME IndInv, NEW rs \in SUBSET runs, NEW ctx \in {"canceled", "lost"}, GiveUp(rs, ctx),
           NEW s \in runs'
    PROVE  \/ s \in runs \ rs
           \/ \E r \in rs : /\ s.p = r.p /\ s.id = r.id /\ s.ctx = ctx
                            /\ Honest(s) /\ Belongs(s)' /\ Housed(r)
<1>1. CASE s \in runs \ rs
  BY <1>1
<1>2. CASE s \notin runs \ rs
  <2>1. PICK r \in rs : r.stage \in Going /\ s = [r EXCEPT !.ctx = ctx]
    BY <1>2 DEF GiveUp, Going
  <2>2. r \in runs
    BY <2>1
  <2>3. /\ s \in Run /\ s.p = r.p /\ s.id = r.id /\ s.n = r.n /\ s.ctx = ctx
        /\ s.staged = r.staged /\ s.cached = r.cached /\ s.wrote = r.wrote /\ s.stage = r.stage
    BY <2>1, <2>2, RunIs DEF Run
  <2>4. Honest(s)
    BY <2>1, <2>2, <2>3, RunIs DEF Honest, Result, Going, Stages
  <2>5. TasksInv /\ TasksInv' /\ Grows
    BY GiveUpTasks DEF IndInv
  <2>6. Belongs(r)'
    BY <2>2, <2>5, RunIs, StaysIn
  <2>7. Belongs(s)'
    BY <2>3, <2>6 DEF Belongs
  <2> QED
    BY <2>2, <2>3, <2>4, <2>7, RunIs
<1> QED
  BY <1>1, <1>2

LEMMA LiveRuns ==
    ASSUME NEW p \in Proc
    PROVE  Live(p) \in SUBSET runs
BY DEF Live

\* The flag is set before the runs are cancelled.
LEMMA DrainKeeps ==
    ASSUME IndInv, NEW p \in Proc, EndDrain(p)
    PROVE  IndInv'
<1> DEFINE m == [proc[p] EXCEPT !.servers = "down"]
           n == [m EXCEPT !.at = @ - 1]
<1>0. DaemonInv /\ TasksInv
  BY DEF IndInv
<1>1. /\ proc[p].at = 3 /\ setup.mode[p] = "worker" /\ proc[p].phase = "stopping"
      /\ proc[p].servers = "draining" /\ HasWorker(p)
  BY <1>0, StoppingIs DEF EndDrain, HasWorker
<1>2. /\ m \in Memory /\ m.phase = proc[p].phase /\ m.at = 3 /\ m.api = proc[p].api
      /\ m.client = proc[p].client /\ m.handlers = proc[p].handlers
      /\ m.managers = proc[p].managers /\ m.acquired = proc[p].acquired
      /\ m.entries = proc[p].entries /\ m.servers = "down" /\ m.shutting = proc[p].shutting
  BY <1>0, <1>1, OldIs DEF Memory
<1>3. /\ n.managers = m.managers /\ n.acquired = m.acquired /\ n.entries = m.entries
      /\ n.at = 2
  BY <1>2 DEF Memory
<1>4. Stopped(p, m) /\ UNCHANGED <<setup, healthy, lock, schema, boots, faults, panics>>
      /\ GiveUp(Live(p), "canceled")
  BY DEF EndDrain
<1> HIDE DEF m
<1>5. Registered(p, n)
  <2> HIDE DEF n
  <2> QED
    BY <1>0, <1>1, <1>2, <1>3, OldIs DEF Registered
<1>6. m.client /\ m.handlers /\ proc[p].shutting
  BY <1>0, <1>1, <1>2, OldIs DEF Phased
<1>7. m.api = FALSE
  BY <1>0, <1>1, <1>2, OldIs DEF Phased, Memory
<1>8. /\ DaemonInv' /\ \A q \in Proc \ {p} : proc'[q] = proc[q]
      /\ proc'[p].phase = "stopping" /\ proc'[p].shutting = proc[p].shutting
  <2>1. proc[p].at # 1
    BY <1>1
  <2> QED
    BY <1>0, <1>1, <1>2, <1>4, <1>5, <1>6, <1>7, <2>1, StoppedKeeps
<1>9. TasksInv' /\ Grows
  BY <1>0, <1>4, GiveUpTasks
<1>10. ASSUME NEW s \in runs'
       PROVE  (s \in runs /\ Harbors(s.p)) \/ (Honest(s) /\ Housed(s)' /\ Belongs(s)')
  <2>1. CASE s \in runs \ Live(p) /\ s.p # p
    BY <1>8, <2>1, RunIs DEF Harbors, Housed
  <2>2. CASE s \in runs \ Live(p) /\ s.p = p
    <3>1. s.id = 0 \/ s.ctx # "live"
      BY <2>2 DEF Live
    <3>2. Housed(s)'
      BY <1>6, <1>8, <2>2, <3>1 DEF Housed
    <3>3. Belongs(s)'
      BY <1>0, <1>9, <2>2, RunIs, StaysIn
    <3> QED
      BY <2>2, <3>2, <3>3, RunIs
  <2>3. CASE s \notin runs \ Live(p)
    <3>1. PICK r \in Live(p) : s.p = r.p /\ s.ctx = "canceled" /\ Honest(s) /\ Belongs(s)'
      BY <1>4, <2>3, GiveUpRuns, LiveRuns
    <3>2. s.p = p
      BY <3>1 DEF Live
    <3>3. Housed(s)'
      BY <1>6, <1>8, <3>1, <3>2 DEF Housed
    <3> QED
      BY <3>1, <3>3
  <2> QED
    BY <2>1, <2>2, <2>3
<1>11. RunsInv'
  BY <1>9, <1>10, RunsKeep
<1> QED
  BY <1>4, <1>8, <1>9, <1>11 DEF IndInv

\* Phase, servers and shutdown of every process are left alone.
Calm ==
    \A q \in Proc : /\ proc'[q].phase = proc[q].phase /\ proc'[q].servers = proc[q].servers
                    /\ proc'[q].shutting = proc[q].shutting

\* A runner is shut down: its entries go, and perhaps its hold on the lock.
LEMMA RunnerStops ==
    ASSUME DaemonInv, NEW p \in Proc, NEW m \in Memory, Set(p, m),
           m.acquired \subseteq proc[p].acquired,
           \/ m.entries = 0
           \/ m.entries = proc[p].entries /\ m.acquired = proc[p].acquired \ {"unique"},
           m.phase = proc[p].phase, m.at = proc[p].at, m.api = proc[p].api,
           m.client = proc[p].client, m.handlers = proc[p].handlers,
           m.managers = proc[p].managers, m.servers = proc[p].servers,
           m.shutting = proc[p].shutting, proc[p].phase # "down",
           UNCHANGED <<setup, healthy, lock, schema, boots>>, faults' \in 0 .. setup.faults
    PROVE  DaemonInv' /\ Calm
<1>1. Phased(p, m)
  BY OldIs DEF Phased
<1>2. Registered(p, m)
  BY OldIs DEF Registered
<1>3. m.at <= proc[p].at
  BY OldIs
<1>4. DaemonInv' /\ proc'[p] = m /\ \A q \in Proc \ {p} : proc'[q] = proc[q]
  BY <1>1, <1>2, <1>3, OldIs, MoveKeeps
<1> QED
  BY <1>4 DEF Calm

LEMMA CalmHarbors ==
    ASSUME IndInv, Calm, NEW r \in runs
    PROVE  Harbors(r.p)
BY RunIs DEF Calm, Harbors, Housed

LEMMA SchedulerKeeps ==
    ASSUME IndInv, NEW p \in Proc, SchedulerShutdown(p)
    PROVE  IndInv'
<1> DEFINE m == Unregistered(proc[p])
<1>0. DaemonInv /\ TasksInv
  BY DEF IndInv
<1>1. /\ Set(p, m) /\ UNCHANGED <<setup, healthy, lock, schema, boots, faults, runs, panics>>
      /\ tasks' = DeleteAllScheduled(p) /\ proc[p].phase # "down"
  BY <1>0, StoppingIs DEF SchedulerShutdown
<1>2. /\ m \in Memory /\ m.phase = proc[p].phase /\ m.at = proc[p].at /\ m.api = proc[p].api
      /\ m.client = proc[p].client /\ m.handlers = proc[p].handlers
      /\ m.managers = proc[p].managers /\ m.acquired = proc[p].acquired
      /\ m.entries = 0 /\ m.servers = proc[p].servers /\ m.shutting = proc[p].shutting
  BY <1>0, OldIs DEF Memory, Unregistered
<1> HIDE DEF m
<1>3. faults' \in 0 .. setup.faults
  BY <1>0, <1>1, OldIs
<1>4. DaemonInv' /\ Calm
  BY <1>0, <1>1, <1>2, <1>3, RunnerStops
<1>5. TasksInv' /\ Grows
  BY <1>0, <1>1, DeleteKeeps
<1>6. RunsInv'
  BY <1>1, <1>4, <1>5, CalmHarbors, RunsKeep
<1> QED
  BY <1>1, <1>4, <1>5, <1>6 DEF IndInv

LEMMA LoseKeeps ==
    ASSUME IndInv, NEW p \in Proc, NEW l \in Locks, Lose(p, l)
    PROVE  IndInv'
<1> DEFINE m == [proc[p] EXCEPT !.acquired = @ \ {l}]
           u == Unregistered(m)
<1>0. DaemonInv /\ TasksInv
  BY DEF IndInv
<1>1. /\ UNCHANGED <<setup, healthy, lock, schema, boots, panics>> /\ l \in proc[p].acquired
      /\ faults' \in 0 .. setup.faults
  BY <1>0, FaultIs DEF Lose, Owns
<1>2. proc[p].phase # "down"
  BY <1>0, <1>1, OldIs DEF Phased, Down
<1>3. /\ m \in Memory /\ m.phase = proc[p].phase /\ m.at = proc[p].at /\ m.api = proc[p].api
      /\ m.client = proc[p].client /\ m.handlers = proc[p].handlers
      /\ m.managers = proc[p].managers /\ m.acquired = proc[p].acquired \ {l}
      /\ m.entries = proc[p].entries /\ m.servers = proc[p].servers
      /\ m.shutting = proc[p].shutting
  BY <1>0, OldIs DEF Memory
<1>4. CASE l = "scheduler"
  <2>1. Set(p, u) /\ tasks' = DeleteAllScheduled(p) /\ runs' = runs
    BY <1>4 DEF Lose
  <2>2. /\ u \in Memory /\ u.phase = proc[p].phase /\ u.at = proc[p].at /\ u.api = proc[p].api
        /\ u.client = proc[p].client /\ u.handlers = proc[p].handlers
        /\ u.managers = proc[p].managers /\ u.acquired \subseteq proc[p].acquired
        /\ u.entries = 0 /\ u.servers = proc[p].servers /\ u.shutting = proc[p].shutting
    <3> HIDE DEF m
    <3> QED
      BY <1>3 DEF Unregistered, Memory
  <2> HIDE DEF u, m
  <2>3. DaemonInv' /\ Calm
    BY <1>0, <1>1, <1>2, <2>1, <2>2, RunnerStops
  <2>4. TasksInv' /\ Grows
    BY <1>0, <2>1, DeleteKeeps
  <2>5. RunsInv'
    BY <2>1, <2>3, <2>4, CalmHarbors, RunsKeep
  <2> QED
    BY <1>1, <2>3, <2>4, <2>5 DEF IndInv
<1>5. CASE l # "scheduler"
  <2> DEFINE rs == {r \in Live(p) : tasks[r.id].opts.queue = "unique"}
  <2>1. Set(p, m) /\ GiveUp(rs, "lost") /\ l = "unique" /\ rs \in SUBSET runs
    BY <1>5, LiveRuns DEF Lose, Locks
  <2> HIDE DEF m, rs
  <2>2. DaemonInv' /\ Calm
    <3>1. m.acquired = proc[p].acquired \ {"unique"} /\ m.acquired \subseteq proc[p].acquired
      BY <1>3, <2>1
    <3> QED
      BY <1>0, <1>1, <1>2, <1>3, <2>1, <3>1, RunnerStops
  <2>3. TasksInv' /\ Grows
    BY <1>0, <2>1, GiveUpTasks
  <2>4. ASSUME NEW s \in runs'
        PROVE  (s \in runs /\ Harbors(s.p)) \/ (Honest(s) /\ Housed(s)' /\ Belongs(s)')
    <3>1. CASE s \in runs
      BY <2>2, <3>1, CalmHarbors
    <3>2. CASE s \notin runs
      <4>1. PICK r \in rs : s.p = r.p /\ s.ctx = "lost" /\ Honest(s) /\ Belongs(s)' /\ Housed(r)
        BY <2>1, <3>2, GiveUpRuns
      <4>2. r \in runs
        BY <2>1, <4>1
      <4>3. proc'[r.p].phase # "down"
        BY <2>2, <4>2, CalmHarbors DEF Harbors
      <4>4. Housed(s)'
        BY <4>1, <4>3 DEF Housed
      <4> QED
        BY <4>1, <4>4
    <3> QED
      BY <3>1, <3>2
  <2>5. RunsInv'
    BY <2>3, <2>4, RunsKeep
  <2> QED
    BY <1>1, <2>2, <2>3, <2>5 DEF IndInv
<1> QED
  BY <1>4, <1>5

\* The runs of a process that ends go with it; the others keep their process.
LEMMA ProcessKeeps ==
    ASSUME IndInv, (\E p \in Proc : Process(DaemonStep(p))) \/ Process(World)
    PROVE  IndInv'
<1>0. DaemonInv /\ TasksInv
  BY DEF IndInv
<1>1. /\ runs' = {r \in runs : proc'[r.p].phase # "down"}
      /\ tasks' = tasks /\ panics' = panics
  BY DEF Process
<1>2. TasksInv' /\ Grows
  BY <1>0, <1>1, SameTasks
<1>3. CASE \E p \in Proc : Process(DaemonStep(p))
  <2>1. PICK p \in Proc : DaemonStep(p)
    BY <1>3 DEF Process
  <2>2. Daemonic(p)
    BY <1>0, <2>1, DaemonStepKeeps
  <2>3. ASSUME NEW s \in runs' PROVE s \in runs /\ Harbors(s.p)
    <3>1. s \in runs /\ proc'[s.p].phase # "down" /\ s.p \in Proc /\ proc[s.p].phase # "down"
      BY <1>1, RunIs DEF Housed
    <3>2. CASE s.p = p
      BY <2>2, <3>1, <3>2 DEF Daemonic, GoesOn, Harbors
    <3>3. CASE s.p # p
      BY <2>2, <3>1, <3>3 DEF Daemonic, Harbors
    <3> QED
      BY <3>1, <3>2, <3>3
  <2>4. RunsInv'
    BY <1>2, <2>3, RunsKeep
  <2> QED
    BY <1>1, <1>2, <2>2, <2>4 DEF IndInv, Daemonic
<1>4. CASE Process(World)
  <2>1. DaemonInv' /\ proc' = proc
    BY <1>0, <1>4, WorldKeeps DEF Process
  <2>2. ASSUME NEW s \in runs' PROVE s \in runs /\ Harbors(s.p)
    BY <1>1, <2>1 DEF Harbors
  <2>3. RunsInv'
    BY <1>2, <2>2, RunsKeep
  <2> QED
    BY <1>1, <1>2, <2>1, <2>3 DEF IndInv
<1> QED
  BY <1>3, <1>4

LEMMA TaskStepKeeps ==
    ASSUME IndInv, TaskStep
    PROVE  IndInv'
BY SubmitKeeps, CronKeeps, ExecuteKeeps, DrainKeeps, SchedulerKeeps, TakeKeeps, LoseKeeps,
   SucceedKeeps, WriteKeeps, FailKeeps, DispatchKeeps, FlushKeeps, ReturnsKeeps, OutcomeKeeps,
   DeadlineKeeps, DueKeeps DEF TaskStep

LEMMA StutterKeeps ==
    ASSUME IndInv, UNCHANGED vars
    PROVE  IndInv'
BY SameTasks, InsideKeeps DEF IndInv, vars, taskVars

LEMMA InitHolds ==
    ASSUME Init
    PROVE  IndInv
<1>1. setup \in Setups /\ setup.boots \in [Proc -> Nat] /\ setup.faults \in Nat
  BY DaemonAssumption DEF Init, DaemonInit
<1>2. Down \in Memory /\ Down.at = 0
  BY DEF Down, Memory
<1>3. proc \in [Proc -> Memory] /\ \A p \in Proc : proc[p] = Down
  BY <1>2 DEF Init, DaemonInit
<1>4. Base
  BY <1>1, <1>3 DEF Init, DaemonInit, Base, Stores
<1>5. ProcInv
  BY <1>3, <1>4, DownIs DEF ProcInv
<1>6. Migrated
  BY <1>2, <1>3 DEF Migrated
<1>7. TasksInv
  BY DEF Init, TasksInv
<1>8. RunsInv /\ panics = {}
  BY DEF Init, RunsInv
<1> QED
  BY <1>4, <1>5, <1>6, <1>7, <1>8 DEF IndInv, DaemonInv

\* The invariant of every run of the processes.
THEOREM Inductive == Spec => []IndInv
<1>1. Init => IndInv
  BY InitHolds
<1>2. IndInv /\ [Next]_vars => IndInv'
  BY ProcessKeeps, TaskStepKeeps, StutterKeeps DEF Next
<1> QED
  BY <1>1, <1>2, PTL DEF Spec

-----------------------------------------------------------------------------
(* What the service may rely on                                            *)

\* Every variable keeps its type; no task fails more often than it may be retried.
THEOREM TypeCorrect == Spec => []TypeOK
<1>1. IndInv => TypeOK
  <2> SUFFICES ASSUME IndInv PROVE TypeOK
    OBVIOUS
  <2>1. DaemonTypeOK
    <3>1. ASSUME NEW p \in Proc
          PROVE  /\ proc[p].phase \in {"down", "starting", "up", "stopping"}
                 /\ proc[p].at \in 0 .. Len(Daemon(p))
                 /\ proc[p].managers \subseteq Locks /\ proc[p].acquired \subseteq Locks
                 /\ proc[p].servers \in {"none", "up", "draining", "down"}
                 /\ boots[p] \in 0 .. setup.boots[p]
      <4>1. setup.boots[p] \in Nat
        BY DaemonAssumption DEF IndInv, DaemonInv, Base
      <4>2. boots[p] \in 0 .. setup.boots[p]
        BY <4>1 DEF IndInv, DaemonInv, Base
      <4> QED
        BY <4>2, OldIs DEF IndInv, Phased, Memory
    <3> QED
      BY <3>1 DEF DaemonTypeOK, IndInv, DaemonInv, Base
  <2>2. ASSUME NEW i \in DOMAIN tasks
        PROVE  /\ tasks[i].state \in Waiting \cup Final \cup {"active"}
               /\ tasks[i].opts.queue \in Queues /\ tasks[i].result \in 0 .. tasks[i].tries
               /\ tasks[i].failed \in 0 .. tasks[i].opts.retry
               /\ tasks[i].tries \in Nat /\ tasks[i].flushed \in BOOLEAN
               /\ tasks[i].good \subseteq 1 .. tasks[i].tries
    <3>1. Counted(tasks[i]) /\ tasks[i] \in Task
      BY DEF IndInv, TasksInv, Counted
    <3>2. tasks[i].opts.queue \in Queues /\ tasks[i].opts.retry \in Nat
      BY <3>1, OptionsTyped DEF Task
    <3> QED
      BY <3>1, <3>2 DEF Counted, Task
  <2>3. ASSUME NEW r \in runs
        PROVE  /\ r.p \in Proc /\ r.id \in 0 .. Len(tasks)
               /\ r.stage \in Stages \cup {"flush", "ok", "failed", "panic"}
               /\ r.ctx \in {"live", "deadline", "canceled", "lost"}
    <3>1. r \in Run /\ r.id \in Nat /\ (r.id # 0 => r.id \in DOMAIN tasks)
      BY RunIs
    <3>2. Len(tasks) \in Nat /\ DOMAIN tasks = 1 .. Len(tasks)
      BY DEF IndInv, TasksInv
    <3>3. r.id \in 0 .. Len(tasks)
      BY <3>1, <3>2
    <3> QED
      BY <3>1, <3>3 DEF Run, Going
  <2> QED
    BY <2>1, <2>2, <2>3 DEF TypeOK
<1> QED
  BY <1>1, Inductive, PTL

\* A server that works has its client and its handlers; only who was given up, or an
\* API without a worker service, finds the client nil; that API's schema is migrated.
THEOREM StartsAndStopsInOrder == Spec => []InOrder
<1>1. IndInv => InOrder
  <2> SUFFICES ASSUME IndInv PROVE InOrder
    OBVIOUS
  <2>1. ASSUME NEW p \in Proc
        PROVE  /\ proc[p].servers \in {"up", "draining"} => proc[p].client /\ proc[p].handlers
               /\ proc[p].api => proc[p].at >= 2
    <3>1. Phased(p, proc[p]) /\ proc[p].at \in Nat
      BY OldIs DEF IndInv
    <3>2. proc[p].at >= 3 => proc[p].at >= 2
      BY <3>1
    <3>3. proc[p].api => proc[p].at >= 3
      BY <3>1 DEF Phased
    <3>4. proc[p].servers \in {"up", "draining"} => proc[p].at >= 3 /\ HasWorker(p)
      BY <3>1 DEF Phased, HasWorker
    <3>5. proc[p].at >= 2 /\ HasWorker(p) => proc[p].client /\ proc[p].handlers
      BY <3>1 DEF Phased
    <3> QED
      BY <3>2, <3>3, <3>4, <3>5
  <2> QED
    BY <2>1 DEF IndInv, DaemonInv, Migrated, InOrder
<1> QED
  BY <1>1, Inductive, PTL

\* A run that the shutdown has cancelled does not fail without being reported.
THEOREM CancellationsReported == Spec => []CancelReported
<1>1. IndInv => CancelReported
  BY DEF IndInv, RunsInv, Honest, CancelReported
<1> QED
  BY <1>1, Inductive, PTL

\* Execute gives back what its handler has staged, flushed or not.
THEOREM ExecuteHonest == Spec => []ExecuteTold
<1>1. IndInv => ExecuteTold
  BY DEF IndInv, RunsInv, Honest, ExecuteTold
<1> QED
  BY <1>1, Inductive, PTL

\* However often the lock is lost and taken, the cron's entries are there once.
THEOREM CronRegisteredOnce == Spec => []CronOnce
<1>1. IndInv => CronOnce
  <2> SUFFICES ASSUME IndInv, NEW p \in Proc PROVE proc[p].entries <= 1
    BY DEF CronOnce
  <2>1. proc[p].entries \in {0, 1}
    BY DEF IndInv, DaemonInv, ProcInv, Registered
  <2> QED
    BY <2>1
<1> QED
  BY <1>1, Inductive, PTL

-----------------------------------------------------------------------------
(* The locks that are taken, lost and given back in one step               *)

\* Who believes to hold a lock is the owner of its key.
Held == \A p \in Proc : \A l \in Locks : Owns(p, l) => lock[l] = p

LEMMA MovesHeld ==
    ASSUME Held, NEW p \in Proc, \A q \in Proc \ {p} : proc'[q] = proc[q],
           proc'[p].acquired \subseteq proc[p].acquired,
           \A l \in Locks : lock'[l] = lock[l] \/ (lock[l] = p /\ l \notin proc'[p].acquired)
    PROVE  Held'
BY DEF Held, Owns

\* A step that gives a process a memory, and leaves the keys alone.
LEMMA SetHeld ==
    ASSUME DaemonInv, Held, NEW p \in Proc, NEW m, Set(p, m), lock' = lock,
           m.acquired \subseteq proc[p].acquired
    PROVE  Held'
<1>1. proc'[p] = m /\ \A q \in Proc \ {p} : proc'[q] = proc[q]
  BY DEF Set, DaemonInv, Base
<1> QED
  BY <1>1, MovesHeld

LEMMA StartedHeld ==
    ASSUME DaemonInv, NEW p \in Proc, NEW d
    PROVE  Started(proc[p], d).acquired = proc[p].acquired
           /\ Started(proc[p], d) \in Memory
BY OldIs DEF Started, StartService, StartClient, RegisterService, Memory, Locks

LEMMA StoppedHeld ==
    ASSUME DaemonInv, Held, NEW p \in Proc, NEW m \in Memory, Stopped(p, m), lock' = lock,
           m.acquired = proc[p].acquired
    PROVE  Held'
<1>1. CASE proc[p].at = 1
  BY <1>1, SetHeld DEF Stopped, Down
<1>2. CASE proc[p].at # 1
  BY <1>2, SetHeld DEF Stopped, Memory
<1> QED
  BY <1>1, <1>2

\* A manager that stops gives its key back, or leaves it to its lease.
LEMMA ReleaseHeld ==
    ASSUME DaemonInv, Held, NEW p \in Proc, NEW l \in Locks, NEW m, Release(p, l), Set(p, m),
           m.acquired \subseteq proc[p].acquired, l \notin m.acquired
    PROVE  Held'
<1>1. proc'[p] = m /\ \A q \in Proc \ {p} : proc'[q] = proc[q]
  BY DEF Set, DaemonInv, Base
<1>2. ASSUME NEW k \in Locks PROVE lock'[k] = lock[k] \/ (lock[k] = p /\ k \notin m.acquired)
  BY OldIs DEF Release, Held
<1> QED
  BY <1>1, <1>2, MovesHeld

LEMMA DaemonHeld ==
    ASSUME DaemonInv, Held, NEW p \in Proc, DaemonStep(p)
    PROVE  Held'
<1>0. proc[p] \in Memory /\ proc \in [Proc -> Memory] /\ lock \in [Locks -> Proc \cup {Nobody}]
  BY OldIs DEF DaemonInv, Base
<1>1. CASE Boot(p) \/ StartFails(p) \/ Crash(p) \/ Shutdown(p)
  BY <1>0, <1>1, SetHeld DEF Boot, StartFails, Crash, Shutdown, Down, Memory
<1>2. CASE StartDaemon(p)
  <2>1. PICK m, at, phase :
          Set(p, [m EXCEPT !.at = at, !.phase = phase])
          /\ m \in Memory /\ m.acquired = proc[p].acquired
    BY <1>2, StartedHeld DEF StartDaemon
  <2> QED
    BY <1>2, <2>1, SetHeld DEF StartDaemon, Memory
<1>3. CASE StopDaemon(p) \/ StopClient(p)
  BY <1>0, <1>3, StoppedHeld DEF StopDaemon, StopClient, Memory
<1>4. CASE StopService(p)
  BY <1>0, <1>4, ReleaseHeld DEF StopService, BeginDrain, Memory, Locks
<1>5. CASE UnRegisterService(p)
  BY <1>0, <1>5, ReleaseHeld DEF UnRegisterService, Memory, Locks
<1>6. CASE \E l \in Locks : Acquire(p, l)
  <2>1. PICK l \in Locks : Acquire(p, l)
    BY <1>6
  <2>2. lock[l] = Nobody /\ lock' = [lock EXCEPT ![l] = p]
    BY <2>1 DEF Acquire
  <2>3. /\ proc'[p].acquired = proc[p].acquired \cup {l}
        /\ \A q \in Proc \ {p} : proc'[q] = proc[q]
    BY <1>0, <2>1 DEF Acquire, Set, Memory
  <2>4. Nobody \notin Proc
    BY DaemonAssumption
  <2> QED
    BY <1>0, <2>2, <2>3, <2>4 DEF Held, Owns
<1> QED
  BY <1>1, <1>2, <1>3, <1>4, <1>5, <1>6 DEF DaemonStep

LEMMA TaskStepHeld ==
    ASSUME DaemonInv, Held, TaskStep
    PROVE  Held'
<1>1. CASE \E p \in Proc : EndDrain(p)
  BY <1>1, OldIs, StoppedHeld DEF EndDrain, Memory
<1>2. CASE \E p \in Proc : SchedulerShutdown(p)
  BY <1>2, OldIs, SetHeld DEF SchedulerShutdown, Unregistered, Memory
<1>3. CASE \E p \in Proc, l \in Locks : Lose(p, l)
  <2>1. PICK p \in Proc, l \in Locks : Lose(p, l)
    BY <1>3
  <2> DEFINE m == [proc[p] EXCEPT !.acquired = @ \ {l}]
  <2>2. m \in Memory /\ m.acquired \subseteq proc[p].acquired
    BY OldIs DEF Memory
  <2>3. lock' = lock /\ (Set(p, m) \/ Set(p, Unregistered(m)))
    BY <2>1 DEF Lose
  <2> HIDE DEF m
  <2>4. Unregistered(m).acquired = m.acquired
    BY <2>2 DEF Unregistered, Memory
  <2> QED
    BY <2>2, <2>3, <2>4, SetHeld
<1>4. CASE UNCHANGED <<proc, lock>>
  BY <1>4 DEF Held, Owns
<1> QED
  BY <1>1, <1>2, <1>3, <1>4 DEF TaskStep, daemonVars, Submit, CronFires, Execute, Take, Succeed,
     Write, Fail, SelfDispatch, FlushResult, Returns, Outcome, Deadline, Due

\* The locks of Daemons keep what RunnerLock promises: however processes start, stop,
\* crash and lose their keys, no two of them believe to hold the same lock.
OneHolder == \A p, q \in Proc : \A l \in Locks : Owns(p, l) /\ Owns(q, l) => p = q

\* A lock has one holder, whatever the others do.
THEOREM LocksExclusive == Spec => []OneHolder
<1>1. Init => Held
  BY DEF Init, DaemonInit, Held, Owns, Down
<1>2. IndInv /\ Held /\ [Next]_vars => Held'
  <2> SUFFICES ASSUME IndInv, Held, [Next]_vars PROVE Held'
    OBVIOUS
  <2>0. DaemonInv
    BY DEF IndInv
  <2>1. CASE Process(World)
    BY <2>0, <2>1, OldIs DEF Process, World, Expire, Break, Heal, Held, Owns, DaemonInv, Base
  <2>2. CASE UNCHANGED vars
    BY <2>2 DEF vars, daemonVars, Held, Owns
  <2> QED
    BY <2>0, <2>1, <2>2, DaemonHeld, TaskStepHeld DEF Next, Process
<1>3. Held => OneHolder
  BY DEF Held, OneHolder
<1> QED
  BY <1>1, <1>2, <1>3, Inductive, PTL DEF Spec

-----------------------------------------------------------------------------
(* The queue "unique"                                                      *)

\* A run that the server of the queue waits for.
OnUnique(r) == r.id # 0 /\ r.ctx = "live" /\ tasks[r.id].opts.queue = "unique"

\* Who runs tasks of the queue holds its lock, or drains.
Served(p) == Owns(p, "unique") \/ proc[p].servers = "draining"

UniqueHeld == \A r \in runs : OnUnique(r) => Served(r.p)

SameOptions ==
    \A i \in DOMAIN tasks : i \in DOMAIN tasks' /\ tasks'[i].opts = tasks[i].opts

\* A result is stored by a run that its server waits for, under its own try.
Heard(r) == r.id # 0 /\ r.ctx = "live"

HeardResults ==
    \A i \in DOMAIN tasks :
        \/ tasks'[i].result = tasks[i].result
        \/ \E r \in runs : Heard(r) /\ r.id = i /\ tasks'[i].result = r.n

LEMMA AlterOptions ==
    ASSUME NEW i \in DOMAIN tasks, NEW t, tasks' = [tasks EXCEPT ![i] = t],
           t.opts = tasks[i].opts, tasks \in Seq(Task),
           \/ t.result = tasks[i].result
           \/ \E r \in runs : Heard(r) /\ r.id = i /\ t.result = r.n
    PROVE  SameOptions /\ HeardResults
<1>1. /\ DOMAIN tasks' = DOMAIN tasks /\ tasks'[i] = t
      /\ \A j \in DOMAIN tasks : j # i => tasks'[j] = tasks[j]
  <2> HIDE DEF Task
  <2> QED
    OBVIOUS
<1> QED
  BY <1>1 DEF SameOptions, HeardResults

LEMMA EnqueueOptions ==
    ASSUME TasksInv, NEW req, Enqueue(req)
    PROVE  SameOptions /\ HeardResults
<1>1. CASE tasks' = tasks
  BY <1>1 DEF SameOptions, HeardResults
<1>2. CASE \E t : tasks' = Append(tasks, t)
  <2>1. tasks \in Seq(Task)
    BY DEF TasksInv
  <2> HIDE DEF Task
  <2>2. DOMAIN tasks = 1 .. Len(tasks) /\ Len(tasks) \in Nat
    BY <2>1
  <2>3. \A j \in DOMAIN tasks : j \in DOMAIN tasks' /\ tasks'[j] = tasks[j]
    BY <1>2, <2>1, <2>2
  <2> QED
    BY <2>3 DEF SameOptions, HeardResults
<1> QED
  BY <1>1, <1>2 DEF Enqueue

LEMMA FailedOptions ==
    ASSUME NEW t \in Task
    PROVE  Failed(t).opts = t.opts /\ Failed(t).result = t.result
BY DEF Failed, Task

\* No step changes what a task was submitted with, and only the runs that are
\* waited for store results.
LEMMA OptionsStay ==
    ASSUME IndInv, TaskStep
    PROVE  SameOptions /\ HeardResults
<1>0. TasksInv /\ tasks \in Seq(Task) /\ \A i \in DOMAIN tasks : tasks[i] \in Task
  BY DEF IndInv, TasksInv, Counted
<1>1. CASE tasks' = tasks
  BY <1>1 DEF SameOptions, HeardResults
<1>2. CASE \E req : Enqueue(req)
  BY <1>0, <1>2, EnqueueOptions
<1>3. CASE \E p \in Proc, i \in DOMAIN tasks : Take(p, i)
  <2>1. PICK i \in DOMAIN tasks :
          tasks' = [tasks EXCEPT ![i].state = "active", ![i].tries = tasks[i].tries + 1]
    BY <1>3 DEF Take
  <2>2. PICK t : t = [tasks[i] EXCEPT !.state = "active", !.tries = tasks[i].tries + 1]
    OBVIOUS
  <2>3. tasks[i] \in Task /\ t.opts = tasks[i].opts /\ t.result = tasks[i].result
    BY <1>0, <2>2 DEF Task
  <2>4. tasks' = [tasks EXCEPT ![i] = t]
    BY <2>1, <2>2
  <2> QED
    BY <1>0, <2>3, <2>4, AlterOptions
<1>4. CASE \E r \in runs : (\E s : Goes(r, s)) /\ tasks' # tasks
  <2>1. PICK r \in runs : (\E s : Goes(r, s)) /\ r.id # 0
    BY <1>4 DEF Goes
  <2>2. r.id \in DOMAIN tasks /\ tasks[r.id] \in Task
    BY <2>1, RunIs
  <2>3. PICK g, v, f :
          /\ tasks' = [tasks EXCEPT ![r.id].good = g, ![r.id].result = v, ![r.id].flushed = f]
          /\ v = tasks[r.id].result \/ (r.staged # 0 /\ r.stage = "flush" /\ Writes(r) /\ v = Result(r))
    <3> DEFINE flushes == r.stage = "flush" /\ r.staged # 0 /\ Writes(r)
               next == NextStage(r.stage)
    <3>1. tasks' = [tasks EXCEPT
             ![r.id].good = IF next = "ok" THEN tasks[r.id].good \cup {r.n} ELSE tasks[r.id].good,
             ![r.id].result = IF flushes THEN Result(r) ELSE tasks[r.id].result,
             ![r.id].flushed = tasks[r.id].flushed \/ flushes]
      BY <2>1 DEF Goes
    <3> QED
      BY <3>1
  <2>4. PICK t : t = [tasks[r.id] EXCEPT !.good = g, !.result = v, !.flushed = f]
    OBVIOUS
  <2>5. t.opts = tasks[r.id].opts /\ t.result = v
    BY <2>2, <2>4 DEF Task
  <2>6. tasks' = [tasks EXCEPT ![r.id] = t]
    BY <2>3, <2>4
  <2>7. v = tasks[r.id].result \/ (Heard(r) /\ v = r.n)
    BY <2>1, <2>3, RunIs DEF Heard, Writes, Honest, Result
  <2> QED
    BY <1>0, <2>2, <2>5, <2>6, <2>7, AlterOptions
<1>8. CASE \E r \in runs : Write(r)
  <2>1. PICK r \in runs : Write(r)
    BY <1>8
  <2>2. r.id \in DOMAIN tasks /\ tasks[r.id] \in Task /\ Heard(r)
    BY <2>1, RunIs DEF Write, Writes, Heard
  <2>3. PICK t : t = [tasks[r.id] EXCEPT !.result = r.n, !.flushed = FALSE]
    OBVIOUS
  <2>4. t.opts = tasks[r.id].opts /\ t.result = r.n
    BY <2>2, <2>3 DEF Task
  <2>5. tasks' = [tasks EXCEPT ![r.id] = t]
    BY <2>1, <2>3 DEF Write
  <2> QED
    BY <1>0, <2>2, <2>4, <2>5, AlterOptions
<1>5. CASE \/ \E r \in runs : (Outcome(r) \/ Deadline(r)) /\ tasks' # tasks
           \/ \E i \in DOMAIN tasks : Due(i)
  <2>1. PICK i \in DOMAIN tasks :
          \E t : /\ tasks' = [tasks EXCEPT ![i] = t]
                 /\ \/ t = Failed(tasks[i])
                    \/ \E st : t = [tasks[i] EXCEPT !.state = st]
    <3>1. CASE \E j \in DOMAIN tasks : Due(j)
      BY <3>1 DEF Due
    <3>2. CASE \E r \in runs : (Outcome(r) \/ Deadline(r)) /\ tasks' # tasks
      <4>1. PICK r \in runs : (Outcome(r) \/ Deadline(r)) /\ tasks' # tasks
        BY <3>2
      <4>2. r.id # 0 /\ \/ tasks' = [tasks EXCEPT ![r.id] = Failed(tasks[r.id])]
                        \/ tasks' = [tasks EXCEPT ![r.id] = [tasks[r.id] EXCEPT !.state = "done"]]
        BY <4>1 DEF Outcome, Deadline
      <4>3. r.id \in DOMAIN tasks
        BY <4>1, <4>2, RunIs
      <4> QED
        BY <4>2, <4>3
    <3> QED
      BY <1>5, <3>1, <3>2
  <2>2. PICK t : /\ tasks' = [tasks EXCEPT ![i] = t]
                 /\ \/ t = Failed(tasks[i])
                    \/ \E st : t = [tasks[i] EXCEPT !.state = st]
    BY <2>1
  <2>3. tasks[i] \in Task
    BY <1>0
  <2>4. t.opts = tasks[i].opts /\ t.result = tasks[i].result
    BY <2>2, <2>3, FailedOptions DEF Task
  <2> QED
    BY <1>0, <2>2, <2>4, AlterOptions
<1>6. CASE \/ \E rs, ctx : GiveUp(rs, ctx)
           \/ \E p \in Proc : tasks' = DeleteAllScheduled(p) /\ tasks' # tasks
  <2>1. /\ tasks' = [i \in DOMAIN tasks |-> tasks'[i]]
        /\ \A i \in DOMAIN tasks :
             tasks'[i] = tasks[i] \/ \E st : tasks'[i] = [tasks[i] EXCEPT !.state = st]
    BY <1>6 DEF GiveUp, DeleteAllScheduled
  <2>2. \A i \in DOMAIN tasks :
          tasks'[i].opts = tasks[i].opts /\ tasks'[i].result = tasks[i].result
    BY <1>0, <2>1 DEF Task
  <2> QED
    BY <2>1, <2>2 DEF SameOptions, HeardResults
<1>7. \/ tasks' = tasks \/ (\E req : Enqueue(req)) \/ (\E rs, ctx : GiveUp(rs, ctx))
      \/ \E p \in Proc, i \in DOMAIN tasks : Take(p, i)
      \/ \E p \in Proc : tasks' = DeleteAllScheduled(p)
      \/ \E r \in runs : (\E s : Goes(r, s)) \/ Write(r) \/ Outcome(r) \/ Deadline(r)
      \/ \E i \in DOMAIN tasks : Due(i)
  BY DEF TaskStep, Submit, CronFires, Execute, EndDrain, SchedulerShutdown, Lose, Succeed, Fail,
     SelfDispatch, FlushResult, Returns
<1> QED
  BY <1>1, <1>2, <1>3, <1>4, <1>5, <1>6, <1>7, <1>8

\* Whoever is waited for was waited for before, or has just been taken.
LEMMA UniqueFollows ==
    ASSUME UniqueHeld,
           \A s \in runs' : OnUnique(s)' =>
              \/ Served(s.p)'
              \/ \E r \in runs : OnUnique(r) /\ r.p = s.p /\ (Served(r.p) => Served(r.p)')
    PROVE  UniqueHeld'
BY DEF UniqueHeld

LEMMA OldUnique ==
    ASSUME IndInv, SameOptions, NEW r \in runs, r.id # 0, r.ctx = "live",
           tasks'[r.id].opts.queue = "unique"
    PROVE  OnUnique(r)
BY RunIs DEF SameOptions, OnUnique

\* A step that leaves the processes alone takes what a server may take.
LEMMA InsideUnique ==
    ASSUME IndInv, UniqueHeld, SameOptions, UNCHANGED daemonVars,
           \A s \in runs' \ runs :
              \/ s.id = 0 \/ s.ctx # "live"
              \/ \E r \in runs : s.p = r.p /\ s.id = r.id /\ r.ctx = "live"
              \/ s.id \in DOMAIN tasks /\ (tasks[s.id].opts.queue = "unique" => Served(s.p))
    PROVE  UniqueHeld'
<1> SUFFICES ASSUME NEW s \in runs', OnUnique(s)'
             PROVE  \/ Served(s.p)'
                    \/ \E r \in runs : OnUnique(r) /\ r.p = s.p /\ (Served(r.p) => Served(r.p)')
  BY UniqueFollows
<1>0. \A p : Served(p) => Served(p)'
  BY DEF daemonVars, Served, Owns
<1>1. s.id # 0 /\ s.ctx = "live" /\ tasks'[s.id].opts.queue = "unique"
  BY DEF OnUnique
<1>2. CASE s \in runs
  BY <1>0, <1>1, <1>2, OldUnique
<1>3. CASE \E r \in runs : s.p = r.p /\ s.id = r.id /\ r.ctx = "live"
  BY <1>0, <1>1, <1>3, OldUnique
<1>4. CASE s.id \in DOMAIN tasks /\ (tasks[s.id].opts.queue = "unique" => Served(s.p))
  BY <1>0, <1>1, <1>4 DEF SameOptions
<1> QED
  BY <1>1, <1>2, <1>3, <1>4

\* The server of the queue has the lock until its shutdown begins: the manager of the
\* scheduler, which forgets all locks, stops when the servers are down.
LEMMA DaemonServes ==
    ASSUME DaemonInv, NEW p \in Proc, DaemonStep(p), NEW q \in Proc, Served(q),
           proc[q].servers \in {"up", "draining"}, proc'[q].phase # "down"
    PROVE  Served(q)'
<1>0. /\ proc[p] \in Memory /\ proc \in [Proc -> Memory]
      /\ Phased(p, proc[p]) /\ Len(Daemon(p)) \in 3 .. 4 /\ proc[p].at \in Nat
  BY OldIs DEF DaemonInv, Base
<1>1. CASE q # p
  <2>1. proc'[q] = proc[q]
    BY <1>0, <1>1 DEF DaemonStep, Boot, StartDaemon, StartFails, Crash, Shutdown, StopDaemon,
       StopService, UnRegisterService, StopClient, Acquire, Set, Stopped
  <2> QED
    BY <2>1 DEF Served, Owns
<1>2. CASE q = p
  <2>0. proc[p].at >= 3 /\ setup.mode[p] = "worker" /\ proc[p].phase # "down"
    BY <1>0, <1>2 DEF Phased, Down
  <2>1. CASE Boot(p) \/ Crash(p)
    BY <1>0, <1>2, <2>0, <2>1 DEF Boot, Crash, Set, Down
  <2>2. CASE StartDaemon(p)
    <3>1. Daemon(p)[proc[p].at + 1] \notin {"worker", "servers"}
      <4>1. proc[p].phase = "starting" /\ proc[p].at + 1 \in 1 .. Len(Daemon(p))
        BY <1>0, <2>2 DEF StartDaemon, Phased
      <4> QED
        BY <2>0, <4>1, OldIs, WhereIs
    <3>2. /\ Started(proc[p], Daemon(p)[proc[p].at + 1]).servers = proc[p].servers
          /\ Started(proc[p], Daemon(p)[proc[p].at + 1]).acquired = proc[p].acquired
          /\ Started(proc[p], Daemon(p)[proc[p].at + 1]) \in Memory
      BY <1>0, <3>1, StartedHeld DEF Started, Memory
    <3>3. PICK m \in Memory :
            /\ \E at, phase : Set(p, [m EXCEPT !.at = at, !.phase = phase])
            /\ m.servers = proc[p].servers /\ m.acquired = proc[p].acquired
      BY <2>2, <3>2 DEF StartDaemon
    <3>4. proc'[p].servers = proc[p].servers /\ proc'[p].acquired = proc[p].acquired
      BY <1>0, <3>3 DEF Set, Memory
    <3> QED
      BY <1>2, <3>4 DEF Served, Owns
  <2>3. CASE StartFails(p) \/ Shutdown(p)
    <3>1. \/ proc'[p] = Down
          \/ proc'[p].servers = proc[p].servers /\ proc'[p].acquired = proc[p].acquired
      BY <1>0, <2>3 DEF StartFails, Shutdown, Set, Memory
    <3> QED
      BY <1>2, <3>1 DEF Served, Owns, Down
  <2>4. CASE StopDaemon(p)
    <3>1. proc'[p].servers = proc[p].servers /\ proc'[p].acquired = proc[p].acquired
      BY <1>0, <2>0, <2>4 DEF StopDaemon, Stopped, Set, Memory
    <3> QED
      BY <1>2, <3>1 DEF Served, Owns
  <2>5. CASE StopService(p)
    BY <1>0, <1>2, <2>5 DEF StopService, BeginDrain, Set, Served, Memory
  <2>6. CASE UnRegisterService(p) \/ StopClient(p)
    BY <1>0, <2>0, <2>6, StoppingIs DEF UnRegisterService, StopClient
  <2>7. CASE \E l \in Locks : Acquire(p, l)
    <3>1. proc'[p].servers = proc[p].servers /\ proc[p].acquired \subseteq proc'[p].acquired
      BY <1>0, <2>7 DEF Acquire, Set, Memory
    <3> QED
      BY <1>2, <3>1 DEF Served, Owns
  <2> QED
    BY <2>1, <2>2, <2>3, <2>4, <2>5, <2>6, <2>7 DEF DaemonStep
<1> QED
  BY <1>1, <1>2

LEMMA ProcessUnique ==
    ASSUME IndInv, UniqueHeld, (\E p \in Proc : Process(DaemonStep(p))) \/ Process(World)
    PROVE  UniqueHeld'
<1>0. /\ DaemonInv /\ tasks' = tasks
      /\ \A s \in runs' : s \in runs /\ proc'[s.p].phase # "down"
  BY DEF IndInv, Process
<1> SUFFICES ASSUME NEW s \in runs', OnUnique(s)'
             PROVE  Served(s.p)'
  BY UniqueFollows
<1>1. OnUnique(s) /\ s \in runs
  BY <1>0 DEF OnUnique
<1>2. Served(s.p) /\ s.p \in Proc /\ proc[s.p].servers \in {"up", "draining"}
  BY <1>1, RunIs DEF UniqueHeld, OnUnique, Housed
<1>3. CASE \E p \in Proc : DaemonStep(p)
  BY <1>0, <1>2, <1>3, DaemonServes
<1>4. CASE World
  BY <1>2, <1>4 DEF World, Expire, Break, Heal, Served, Owns
<1> QED
  BY <1>3, <1>4 DEF Process

\* The server that stops, or loses its lock, gives up its runs.
LEMMA StopsUnique ==
    ASSUME IndInv, UniqueHeld, SameOptions, NEW p \in Proc,
           EndDrain(p) \/ SchedulerShutdown(p) \/ \E l \in Locks : Lose(p, l)
    PROVE  UniqueHeld'
<1>0. /\ DaemonInv /\ proc[p] \in Memory /\ proc \in [Proc -> Memory]
      /\ Phased(p, proc[p])
  BY OldIs DEF IndInv, DaemonInv, Base
<1>1. \A q \in Proc \ {p} : proc'[q] = proc[q]
  BY <1>0 DEF EndDrain, SchedulerShutdown, Lose, Stopped, Set
<1> SUFFICES ASSUME NEW s \in runs', OnUnique(s)'
             PROVE  \/ Served(s.p)'
                    \/ \E r \in runs : OnUnique(r) /\ r.p = s.p /\ (Served(r.p) => Served(r.p)')
  BY UniqueFollows
<1>2. s.id # 0 /\ s.ctx = "live" /\ tasks'[s.id].opts.queue = "unique"
  BY DEF OnUnique
<1>3. s \in runs => /\ OnUnique(s) /\ s.p \in Proc
                    /\ s.p # p => (Served(s.p) => Served(s.p)')
  BY <1>1, <1>2, OldUnique, RunIs DEF Served, Owns
<1>4. CASE EndDrain(p)
  <2>1. GiveUp(Live(p), "canceled")
    BY <1>4 DEF EndDrain
  <2>2. s \in runs \ Live(p)
    BY <1>2, <2>1, GiveUpRuns, LiveRuns
  <2>3. s.p # p
    BY <1>2, <2>2 DEF Live
  <2> QED
    BY <1>3, <2>2, <2>3
<1>5. CASE SchedulerShutdown(p)
  <2>1. s \in runs /\ proc'[p] = Unregistered(proc[p])
    BY <1>0, <1>5 DEF SchedulerShutdown, Set
  <2>2. proc'[p].acquired = proc[p].acquired /\ proc'[p].servers = proc[p].servers
    BY <1>0, <2>1 DEF Unregistered, Memory
  <2> QED
    BY <1>3, <2>1, <2>2 DEF Served, Owns
<1>6. CASE Lose(p, "scheduler")
  <2> DEFINE m == [proc[p] EXCEPT !.acquired = @ \ {"scheduler"}]
  <2>1. s \in runs /\ proc'[p] = Unregistered(m)
    BY <1>0, <1>6 DEF Lose, Set
  <2>2. /\ m \in Memory /\ m.acquired = proc[p].acquired \ {"scheduler"}
        /\ m.servers = proc[p].servers
    BY <1>0 DEF Memory
  <2> HIDE DEF m
  <2>3. proc'[p].acquired = proc[p].acquired \ {"scheduler"} /\ proc'[p].servers = proc[p].servers
    BY <2>1, <2>2 DEF Unregistered, Memory
  <2> QED
    BY <1>3, <2>1, <2>3 DEF Served, Owns
<1>7. CASE Lose(p, "unique")
  <2> DEFINE rs == {r \in Live(p) : tasks[r.id].opts.queue = "unique"}
  <2>1. GiveUp(rs, "lost") /\ rs \in SUBSET runs
    BY <1>7, LiveRuns DEF Lose
  <2>2. s \in runs \ rs
    BY <1>2, <2>1, GiveUpRuns
  <2>3. s.p # p
    BY <1>2, <1>3, <2>2 DEF Live, OnUnique
  <2> QED
    BY <1>3, <2>2, <2>3
<1> QED
  BY <1>4, <1>5, <1>6, <1>7 DEF Locks

LEMMA TaskStepUnique ==
    ASSUME IndInv, UniqueHeld, TaskStep
    PROVE  UniqueHeld'
<1>0. SameOptions
  BY OptionsStay
<1>1. CASE \E p \in Proc : EndDrain(p) \/ SchedulerShutdown(p) \/ \E l \in Locks : Lose(p, l)
  BY <1>0, <1>1, StopsUnique
<1>2. CASE \E p \in Proc, i \in DOMAIN tasks : Take(p, i)
  <2>1. PICK p \in Proc, i \in DOMAIN tasks : Take(p, i)
    BY <1>2
  <2>2. PICK s : runs' = runs \cup {s} /\ s.p = p /\ s.id = i
    <3>1. \E known : runs' = runs \cup {NewRun(p, i, tasks[i].tries + 1, known)}
      BY <2>1 DEF Take
    <3>2. \A known : LET s == NewRun(p, i, tasks[i].tries + 1, known) IN s.p = p /\ s.id = i
      BY DEF NewRun
    <3> QED
      BY <3>1, <3>2
  <2>3. tasks[i].opts.queue = "unique" => Served(p)
    BY <2>1 DEF Take, Serves, Served
  <2>4. UNCHANGED daemonVars
    BY <2>1 DEF Take
  <2> QED
    BY <1>0, <2>2, <2>3, <2>4, InsideUnique
<1>3. CASE \E p \in Proc : Execute(p)
  <2>1. PICK s : runs' = runs \cup {s} /\ s.id = 0
    <3>1. \E p \in Proc : runs' = runs \cup {NewRun(p, 0, 1, TRUE)}
      BY <1>3 DEF Execute
    <3>2. \A p \in Proc : NewRun(p, 0, 1, TRUE).id = 0
      BY DEF NewRun
    <3> QED
      BY <3>1, <3>2
  <2>2. UNCHANGED daemonVars
    BY <1>3 DEF Execute
  <2> QED
    BY <1>0, <2>1, <2>2, InsideUnique
<1>4. CASE /\ UNCHANGED daemonVars
           /\ \A s \in runs' \ runs :
                s.ctx # "live" \/ \E r \in runs : s.p = r.p /\ s.id = r.id /\ r.ctx = "live"
  BY <1>0, <1>4, InsideUnique
<1>5. CASE \E r \in runs : \/ Succeed(r) \/ Write(r) \/ Fail(r) \/ SelfDispatch(r) \/ FlushResult(r)
                           \/ Returns(r) \/ Outcome(r) \/ Deadline(r)
  <2>1. PICK r \in runs : \/ Succeed(r) \/ Write(r) \/ Fail(r) \/ SelfDispatch(r) \/ FlushResult(r)
                          \/ Returns(r) \/ Outcome(r) \/ Deadline(r)
    BY <1>5
  <2>2. r \in Run
    BY RunIs
  <2>3. UNCHANGED daemonVars
    BY <2>1 DEF Succeed, Write, Fail, SelfDispatch, FlushResult, Returns, Outcome, Deadline
  <2>4. ASSUME NEW s \in runs' \ runs
        PROVE  s.p = r.p /\ s.id = r.id /\ s.ctx \in {r.ctx, "deadline"}
    <3>1. CASE Succeed(r) \/ FlushResult(r)
      <4>1. PICK u : /\ u \in {r} \cup {[r EXCEPT !.staged = r.n, !.wrote = r.n],
                                        [r EXCEPT !.staged = 0, !.cached = Result(r)]}
                     /\ Goes(r, u)
        BY <3>1 DEF Succeed, FlushResult
      <4>2. s = [u EXCEPT !.stage = NextStage(r.stage)]
        BY <2>4, <4>1 DEF Goes, Becomes
      <4> QED
        BY <2>2, <4>1, <4>2 DEF Run
    <3>2. CASE Fail(r) \/ SelfDispatch(r)
      <4>1. \/ \E n, told : s = [r EXCEPT !.stage = "failed", !.staged = n, !.wrote = n,
                                              !.notified = told]
            \/ s = [r EXCEPT !.stage = "panic"]
        BY <2>4, <3>2 DEF Fail, SelfDispatch, Becomes
      <4> QED
        BY <2>2, <4>1 DEF Run
    <3>3. CASE Write(r) \/ Returns(r) \/ Outcome(r) \/ Deadline(r)
      BY <2>2, <2>4, <3>3 DEF Write, Returns, Outcome, Deadline, Becomes, Run
    <3> QED
      BY <2>1, <3>1, <3>2, <3>3
  <2>5. \A s \in runs' \ runs :
          s.ctx # "live" \/ \E u \in runs : s.p = u.p /\ s.id = u.id /\ u.ctx = "live"
    BY <2>4
  <2> QED
    BY <1>4, <2>3, <2>5
<1> QED
  BY <1>1, <1>2, <1>3, <1>4, <1>5 DEF TaskStep, Submit, CronFires, Due

\* However locks are lost, processes crash and tasks are retried, two processes never
\* run tasks of the queue "unique" at once, but while one of them drains what it had
\* taken before it gave its lock back (release).
UniqueOnce ==
    \A r, s \in runs : OnUnique(r) /\ OnUnique(s) /\ r.p # s.p =>
        "draining" \in {proc[r.p].servers, proc[s.p].servers}

\* The queue "unique" is served by one process, hand-overs apart.
THEOREM UniqueInOneProcess == Spec => []UniqueOnce
<1>1. Init => UniqueHeld
  BY DEF Init, UniqueHeld
<1>2. IndInv /\ UniqueHeld /\ [Next]_vars => UniqueHeld'
  <2> SUFFICES ASSUME IndInv, UniqueHeld, [Next]_vars PROVE UniqueHeld'
    OBVIOUS
  <2>1. CASE UNCHANGED vars
    BY <2>1 DEF vars, daemonVars, taskVars, UniqueHeld, OnUnique, Served, Owns
  <2> QED
    BY <2>1, ProcessUnique, TaskStepUnique DEF Next
<1>3. IndInv /\ UniqueHeld /\ OneHolder => UniqueOnce
  BY RunIs DEF UniqueHeld, OnUnique, Served, OneHolder, UniqueOnce, Locks
<1> QED
  BY <1>1, <1>2, <1>3, Inductive, LocksExclusive, PTL DEF Spec

-----------------------------------------------------------------------------
(* Results                                                                 *)

\* A task that a server waits for is active, and is waited for in its latest try
\* alone.
LatestHeld ==
    \A r \in runs : Heard(r) =>
        /\ tasks[r.id].state = "active" /\ r.n = tasks[r.id].tries
        /\ \A s \in runs : Heard(s) /\ s.id = r.id => s = r

\* The tasks that are still waited for have not been changed.
Undisturbed ==
    \A u \in runs' : Heard(u) =>
        /\ tasks'[u.id].state = tasks[u.id].state /\ tasks'[u.id].tries = tasks[u.id].tries

LEMMA FewerRuns ==
    ASSUME LatestHeld, runs' \subseteq runs, Undisturbed
    PROVE  LatestHeld'
BY DEF LatestHeld, Undisturbed, Heard

\* A run goes on as s.
LEMMA OneGoesOn ==
    ASSUME LatestHeld, NEW r \in runs, NEW s, Becomes(r, s), Undisturbed,
           Heard(s) => Heard(r) /\ s.id = r.id /\ s.n = r.n
    PROVE  LatestHeld'
<1>1. runs' = (runs \ {r}) \cup {s}
  BY DEF Becomes
<1>2. ASSUME NEW u \in runs', Heard(u)
      PROVE  \E v \in runs : /\ Heard(v) /\ v.id = u.id /\ v.n = u.n
                             /\ v = IF u = s THEN r ELSE u
  BY <1>1, <1>2
<1>3. ASSUME NEW u \in runs', Heard(u), NEW w \in runs', Heard(w), u.id = w.id
      PROVE  u = w
  <2>1. PICK a \in runs : Heard(a) /\ a.id = u.id /\ a = IF u = s THEN r ELSE u
    BY <1>2, <1>3
  <2>2. PICK b \in runs : Heard(b) /\ b.id = w.id /\ b = IF w = s THEN r ELSE w
    BY <1>2, <1>3
  <2>3. a = b
    BY <1>3, <2>1, <2>2 DEF LatestHeld
  <2> QED
    BY <1>1, <2>1, <2>2, <2>3
<1>4. ASSUME NEW u \in runs', Heard(u)
      PROVE  tasks'[u.id].state = "active" /\ u.n = tasks'[u.id].tries
  BY <1>2, <1>4 DEF LatestHeld, Undisturbed
<1> QED
  BY <1>3, <1>4 DEF LatestHeld, Heard

LEMMA EnqueueSteady ==
    ASSUME TasksInv, NEW req, Enqueue(req), NEW i \in DOMAIN tasks
    PROVE  tasks'[i] = tasks[i]
<1>1. CASE tasks' = tasks
  BY <1>1
<1>2. CASE \E t : tasks' = Append(tasks, t)
  <2>1. tasks \in Seq(Task)
    BY DEF TasksInv
  <2> HIDE DEF Task
  <2> QED
    BY <1>2, <2>1
<1> QED
  BY <1>1, <1>2 DEF Enqueue

\* A task that fails, or changes its state, is not waited for any longer.
LEMMA OneLeft ==
    ASSUME IndInv, NEW i \in DOMAIN tasks, NEW t, tasks' = [tasks EXCEPT ![i] = t],
           \A u \in runs' : Heard(u) => u \in runs /\ u.id # i
    PROVE  Undisturbed
<1>1. tasks \in Seq(Task)
  BY DEF IndInv, TasksInv
<1>2. \A j \in DOMAIN tasks : j # i => tasks'[j] = tasks[j]
  <2> HIDE DEF Task
  <2> QED
    BY <1>1
<1>3. \A u \in runs : Heard(u) => u.id \in DOMAIN tasks
  BY RunIs DEF Heard
<1> QED
  BY <1>2, <1>3 DEF Undisturbed

\* The tasks of the runs that are given up go back to the queue, and they alone.
LEMMA GiveUpLatest ==
    ASSUME IndInv, LatestHeld, NEW rs \in SUBSET runs, NEW ctx \in {"canceled", "lost"},
           GiveUp(rs, ctx), \A r \in rs : Heard(r)
    PROVE  LatestHeld'
<1>1. ASSUME NEW u \in runs', Heard(u) PROVE u \in runs \ rs
  BY <1>1, GiveUpRuns DEF Heard
<1>2. ASSUME NEW u \in runs', Heard(u)
      PROVE  u.id \in DOMAIN tasks /\ tasks'[u.id] = tasks[u.id]
  <2>1. u \in runs \ rs /\ u.id \in DOMAIN tasks
    BY <1>1, <1>2, RunIs DEF Heard
  <2>2. ~\E r \in rs : r.id = u.id
    BY <1>2, <2>1 DEF LatestHeld
  <2> QED
    BY <2>1, <2>2 DEF GiveUp
<1> QED
  BY <1>1, <1>2 DEF LatestHeld, Heard

LEMMA LiveAreHeard ==
    ASSUME NEW p \in Proc
    PROVE  \A r \in Live(p) : Heard(r)
BY DEF Live, Heard

LEMMA DeleteLatest ==
    ASSUME IndInv, LatestHeld, NEW p \in Proc, tasks' = DeleteAllScheduled(p), runs' = runs
    PROVE  LatestHeld'
<1>1. ASSUME NEW u \in runs, Heard(u)
      PROVE  u.id \in DOMAIN tasks /\ tasks'[u.id] = tasks[u.id]
  <2>1. u.id \in DOMAIN tasks /\ tasks[u.id].state = "active"
    BY <1>1, RunIs DEF Heard, LatestHeld
  <2> QED
    BY <2>1 DEF DeleteAllScheduled
<1> QED
  BY <1>1, FewerRuns DEF Undisturbed

LEMMA TakeLatest ==
    ASSUME IndInv, LatestHeld, NEW p \in Proc, NEW i \in DOMAIN tasks, Take(p, i)
    PROVE  LatestHeld'
<1>1. tasks[i] \in Task /\ tasks \in Seq(Task)
  BY DEF IndInv, TasksInv, Counted
<1>2. PICK s : /\ runs' = runs \cup {s} /\ s.id = i /\ s.n = tasks[i].tries + 1
  <2>1. \E known : runs' = runs \cup {NewRun(p, i, tasks[i].tries + 1, known)}
    BY DEF Take
  <2>2. \A known : LET s == NewRun(p, i, tasks[i].tries + 1, known)
                   IN  s.id = i /\ s.n = tasks[i].tries + 1
    BY DEF NewRun
  <2> QED
    BY <2>1, <2>2
<1>3. PICK t : t = [tasks[i] EXCEPT !.state = "active", !.tries = tasks[i].tries + 1]
  OBVIOUS
<1>4. tasks' = [tasks EXCEPT ![i] = t] /\ tasks[i].state = "pending"
  BY <1>3 DEF Take
<1>5. t.state = "active" /\ t.tries = tasks[i].tries + 1
  BY <1>1, <1>3 DEF Task
<1>6. \A u \in runs : Heard(u) => u.id # i /\ u.id \in DOMAIN tasks
  BY <1>4, RunIs DEF LatestHeld, Heard
<1>7. tasks'[i] = t /\ \A j \in DOMAIN tasks : j # i => tasks'[j] = tasks[j]
  <2> HIDE DEF Task
  <2> QED
    BY <1>1, <1>4
<1>8. ASSUME NEW u \in runs', Heard(u)
      PROVE  /\ tasks'[u.id].state = "active" /\ u.n = tasks'[u.id].tries
             /\ \A w \in runs' : Heard(w) /\ w.id = u.id => w = u
  <2>1. CASE u \in runs
    <3>1. \A w \in runs' : Heard(w) /\ w.id = u.id => w \in runs
      BY <1>2, <1>6, <1>8, <2>1
    <3> QED
      BY <1>6, <1>7, <1>8, <2>1, <3>1 DEF LatestHeld
  <2>2. CASE u = s
    BY <1>2, <1>5, <1>6, <1>7, <2>2
  <2> QED
    BY <1>2, <1>8, <2>1, <2>2
<1> QED
  BY <1>8 DEF LatestHeld, Heard

LEMMA GoesLatest ==
    ASSUME IndInv, LatestHeld, NEW r \in runs, NEW s, Goes(r, s),
           s \in {r, [r EXCEPT !.staged = r.n, !.wrote = r.n],
                  [r EXCEPT !.staged = 0, !.cached = Result(r)]}
    PROVE  LatestHeld'
<1>1. PICK u : u = [s EXCEPT !.stage = NextStage(r.stage)] /\ Becomes(r, u)
  BY DEF Goes
<1>2. u.id = r.id /\ u.n = r.n /\ u.ctx = r.ctx
  BY <1>1, RunIs DEF Run
<1>3. ASSUME NEW i \in DOMAIN tasks
      PROVE  tasks'[i].state = tasks[i].state /\ tasks'[i].tries = tasks[i].tries
  <2>1. CASE r.id = 0
    BY <2>1 DEF Goes
  <2>2. CASE r.id # 0
    <3>1. PICK g, v, f : tasks' = [tasks EXCEPT ![r.id].good = g, ![r.id].result = v,
                                                ![r.id].flushed = f]
      BY <2>2 DEF Goes
    <3>2. tasks[i] \in Task /\ tasks \in Seq(Task)
      BY DEF IndInv, TasksInv, Counted
    <3>3. tasks'[i] = IF i = r.id THEN [tasks[i] EXCEPT !.good = g, !.result = v, !.flushed = f]
                      ELSE tasks[i]
      BY <3>1, <3>2
    <3> QED
      BY <3>2, <3>3 DEF Task
  <2> QED
    BY <2>1, <2>2
<1>4. Undisturbed
  <2>1. \A w \in runs' : Heard(w) => w.id \in DOMAIN tasks
    BY <1>1, <1>2, RunIs DEF Becomes, Heard
  <2> QED
    BY <1>3, <2>1 DEF Undisturbed
<1> QED
  BY <1>1, <1>2, <1>4, OneGoesOn DEF Heard

\* The steps of a run that leave the tasks, or all of them but its own.
LEMMA RunLatest ==
    ASSUME IndInv, LatestHeld, NEW r \in runs,
           Write(r) \/ Fail(r) \/ SelfDispatch(r) \/ Returns(r) \/ Outcome(r) \/ Deadline(r)
    PROVE  LatestHeld'
<1>0. /\ r \in Run /\ TasksInv /\ \A u \in runs : Heard(u) => u.id \in DOMAIN tasks
  BY RunIs DEF IndInv, Heard
<1>1. CASE Write(r)
  <2>1. /\ runs' = runs /\ r.id \in DOMAIN tasks /\ tasks[r.id] \in Task /\ tasks \in Seq(Task)
        /\ tasks' = [tasks EXCEPT ![r.id].result = r.n, ![r.id].flushed = FALSE]
    BY <1>0, <1>1, RunIs DEF Write, Writes, TasksInv
  <2>2. \A i \in DOMAIN tasks : tasks'[i] =
            IF i = r.id THEN [tasks[i] EXCEPT !.result = r.n, !.flushed = FALSE] ELSE tasks[i]
    BY <2>1
  <2>3. Undisturbed
    BY <1>0, <2>1, <2>2 DEF Undisturbed, Task
  <2> QED
    BY <2>1, <2>3, FewerRuns
<1>2. CASE Fail(r)
  <2>1. PICK s : Becomes(r, s) /\ s.id = r.id /\ s.n = r.n /\ s.ctx = r.ctx
    <3>1. PICK n, told : Becomes(r, [r EXCEPT !.stage = "failed", !.staged = n, !.wrote = n,
                                              !.notified = told])
      BY <1>2 DEF Fail
    <3>2. PICK s : s = [r EXCEPT !.stage = "failed", !.staged = n, !.wrote = n, !.notified = told]
      OBVIOUS
    <3>3. Becomes(r, s)
      BY <3>1, <3>2
    <3>4. s.id = r.id /\ s.n = r.n /\ s.ctx = r.ctx
      BY <1>0, <3>2 DEF Run
    <3> QED
      BY <3>3, <3>4
  <2>2. tasks' = tasks
    BY <1>2 DEF Fail
  <2> QED
    BY <2>1, <2>2, OneGoesOn DEF Undisturbed, Heard
<1>3. CASE SelfDispatch(r)
  <2>1. CASE runs' = runs /\ \E req : Enqueue(req)
    BY <1>0, <2>1, EnqueueSteady, FewerRuns DEF Undisturbed
  <2>2. CASE tasks' = tasks /\ Becomes(r, [r EXCEPT !.stage = "panic"])
    <3>1. PICK s : s = [r EXCEPT !.stage = "panic"]
      OBVIOUS
    <3>2. s.id = r.id /\ s.n = r.n /\ s.ctx = r.ctx
      BY <1>0, <3>1 DEF Run
    <3> QED
      BY <2>2, <3>1, <3>2, OneGoesOn DEF Undisturbed, Heard
  <2> QED
    BY <1>3, <2>1, <2>2 DEF SelfDispatch
<1>4. CASE Returns(r)
  BY <1>4, FewerRuns DEF Returns, Undisturbed
<1>5. CASE Outcome(r)
  <2>1. runs' = runs \ {r} /\ r.id # 0 /\ r.id \in DOMAIN tasks
    BY <1>5, RunIs DEF Outcome
  <2>2. CASE r.ctx # "live"
    <3>1. tasks' = tasks
      BY <1>5, <2>2 DEF Outcome
    <3> QED
      BY <2>1, <3>1, FewerRuns DEF Undisturbed
  <2>3. CASE r.ctx = "live"
    <3>1. \E t : tasks' = [tasks EXCEPT ![r.id] = t]
      BY <1>5, <2>3 DEF Outcome
    <3>2. \A u \in runs' : Heard(u) => u \in runs /\ u.id # r.id
      BY <2>1, <2>3 DEF LatestHeld, Heard
    <3>3. Undisturbed
      BY <2>1, <3>1, <3>2, OneLeft
    <3> QED
      BY <2>1, <3>3, FewerRuns
  <2> QED
    BY <2>2, <2>3
<1>6. CASE Deadline(r)
  <2>1. PICK s : s = [r EXCEPT !.ctx = "deadline"]
    OBVIOUS
  <2>2. Becomes(r, s) /\ s.ctx = "deadline" /\ r.ctx = "live"
    BY <1>0, <1>6, <2>1 DEF Deadline, Run
  <2>3. CASE tasks' = tasks
    BY <2>2, <2>3, OneGoesOn DEF Undisturbed, Heard
  <2>4. CASE tasks' # tasks
    <3>1. r.id # 0 /\ r.id \in DOMAIN tasks /\ \E t : tasks' = [tasks EXCEPT ![r.id] = t]
      BY <1>6, <2>4, RunIs DEF Deadline
    <3>2. \A u \in runs' : Heard(u) => u \in runs /\ u.id # r.id
      BY <2>2, <3>1 DEF LatestHeld, Heard, Becomes
    <3>3. Undisturbed
      BY <3>1, <3>2, OneLeft
    <3> QED
      BY <2>2, <3>3, OneGoesOn DEF Heard
  <2> QED
    BY <2>3, <2>4
<1> QED
  BY <1>1, <1>2, <1>3, <1>4, <1>5, <1>6

LEMMA DueLatest ==
    ASSUME IndInv, LatestHeld, NEW i \in DOMAIN tasks, Due(i)
    PROVE  LatestHeld'
<1>1. runs' = runs /\ \E t : tasks' = [tasks EXCEPT ![i] = t]
  BY DEF Due
<1>2. \A u \in runs' : Heard(u) => u \in runs /\ u.id # i
  BY <1>1 DEF Due, LatestHeld, Heard
<1>3. Undisturbed
  BY <1>1, <1>2, OneLeft
<1> QED
  BY <1>1, <1>3, FewerRuns

LEMMA StepLatest ==
    ASSUME IndInv, LatestHeld, [Next]_vars
    PROVE  LatestHeld'
<1>0. TasksInv /\ \A u \in runs : Heard(u) => u.id \in DOMAIN tasks
  BY RunIs DEF IndInv, Heard
<1>1. CASE tasks' = tasks /\ runs' \subseteq runs
  BY <1>1, FewerRuns DEF Undisturbed
<1>2. CASE runs' = runs /\ \E req : Enqueue(req)
  BY <1>0, <1>2, EnqueueSteady, FewerRuns DEF Undisturbed
<1>3. ASSUME NEW p \in Proc, Execute(p) PROVE LatestHeld'
  <2>1. PICK q : tasks' = tasks /\ runs' = runs \cup {NewRun(q, 0, 1, TRUE)}
    BY <1>3 DEF Execute
  <2>2. NewRun(q, 0, 1, TRUE).id = 0
    BY DEF NewRun
  <2> QED
    BY <2>1, <2>2 DEF LatestHeld, Heard
<1>4. ASSUME NEW p \in Proc, EndDrain(p) PROVE LatestHeld'
  BY <1>4, LiveRuns, LiveAreHeard, GiveUpLatest DEF EndDrain
<1>5. ASSUME NEW p \in Proc, SchedulerShutdown(p) PROVE LatestHeld'
  BY <1>5, DeleteLatest DEF SchedulerShutdown
<1>6. ASSUME NEW p \in Proc, NEW l \in Locks, Lose(p, l) PROVE LatestHeld'
  <2>1. CASE l = "scheduler"
    BY <1>6, <2>1, DeleteLatest DEF Lose
  <2>2. CASE l # "scheduler"
    <3> DEFINE rs == {r \in Live(p) : tasks[r.id].opts.queue = "unique"}
    <3>1. GiveUp(rs, "lost") /\ rs \in SUBSET runs /\ \A r \in rs : Heard(r)
      BY <1>6, <2>2, LiveRuns, LiveAreHeard DEF Lose
    <3> HIDE DEF rs
    <3> QED
      BY <3>1, GiveUpLatest
  <2> QED
    BY <2>1, <2>2
<1>7. ASSUME NEW p \in Proc, NEW i \in DOMAIN tasks, Take(p, i) PROVE LatestHeld'
  BY <1>7, TakeLatest
<1>8. ASSUME NEW r \in runs, Succeed(r) \/ FlushResult(r) PROVE LatestHeld'
  <2>1. PICK s \in {r, [r EXCEPT !.staged = r.n, !.wrote = r.n],
                    [r EXCEPT !.staged = 0, !.cached = Result(r)]} : Goes(r, s)
    BY <1>8 DEF Succeed, FlushResult
  <2> QED
    BY <2>1, GoesLatest
<1>9. CASE TaskStep
  <2>1. \/ \E p \in Proc : \/ Execute(p) \/ EndDrain(p) \/ SchedulerShutdown(p)
                           \/ (\E l \in Locks : Lose(p, l)) \/ \E i \in DOMAIN tasks : Take(p, i)
        \/ runs' = runs /\ ((\E req : Enqueue(req)) \/ tasks' = tasks)
        \/ \E r \in runs : \/ Succeed(r) \/ FlushResult(r)
                           \/ Write(r) \/ Fail(r) \/ SelfDispatch(r) \/ Returns(r) \/ Outcome(r)
                           \/ Deadline(r)
        \/ \E i \in DOMAIN tasks : Due(i)
    BY <1>9 DEF TaskStep, Submit, CronFires
  <2> QED
    BY <1>1, <1>2, <1>3, <1>4, <1>5, <1>6, <1>7, <1>8, <2>1, RunLatest, DueLatest
<1>10. CASE \/ UNCHANGED vars \/ Process(World) \/ \E p \in Proc : Process(DaemonStep(p))
  BY <1>1, <1>10 DEF vars, taskVars, Process
<1> QED
  BY <1>9, <1>10 DEF Next

\* A staged result is stored by a run that went through all its stages only, and
\* whoever stores one, a run that was given up never puts its result in the place of
\* a later one: it is not waited for, and who is waited for is the latest try.
THEOREM ResultsHonest == Spec => ResultOfGoodRun
<1>1. Init => LatestHeld
  BY DEF Init, LatestHeld
<1>2. IndInv /\ LatestHeld /\ [Next]_vars => LatestHeld'
  BY StepLatest
<1>3. IndInv => \A i \in DOMAIN tasks : tasks[i].flushed => tasks[i].result \in tasks[i].good
  BY DEF IndInv, TasksInv, Counted
<1>4. IndInv /\ LatestHeld /\ [Next]_vars =>
        [\A i \in DOMAIN tasks : tasks'[i].result >= tasks[i].result]_vars
  <2> SUFFICES ASSUME IndInv, LatestHeld, Next, NEW i \in DOMAIN tasks
               PROVE  tasks'[i].result >= tasks[i].result
    OBVIOUS
  <2>1. tasks[i].result \in Nat /\ tasks[i].tries \in Nat /\ tasks[i].result <= tasks[i].tries
    BY DEF IndInv, TasksInv, Counted, Task
  <2>2. CASE TaskStep
    <3>1. HeardResults
      BY <2>2, OptionsStay
    <3>2. CASE tasks'[i].result = tasks[i].result
      BY <2>1, <3>2
    <3>3. CASE \E r \in runs : Heard(r) /\ r.id = i /\ tasks'[i].result = r.n
      BY <2>1, <3>3 DEF LatestHeld
    <3> QED
      BY <3>1, <3>2, <3>3 DEF HeardResults
  <2>3. CASE tasks' = tasks
    BY <2>1, <2>3
  <2> QED
    BY <2>2, <2>3 DEF Next, Process
<1> QED
  BY <1>1, <1>2, <1>3, <1>4, Inductive, PTL DEF Spec, ResultOfGoodRun

=============================================================================
