------------------------------ MODULE Daemons ------------------------------
(***************************************************************************)
(* Processes of the service, app/daemons: the mode of a process names a    *)
(* preset of daemons that start in order and stop in reverse, the daemons  *)
(* open the connectors, the client, the scheduler and the servers of       *)
(* app/worker, and a health check shuts the process down when a store no   *)
(* longer answers.                                                         *)
(*                                                                         *)
(* The locks are those RunnerLock promises and SingleInstance implements,  *)
(* taken, lost and given back in one step each.  Tasks.tla says what       *)
(* happens to the tasks.                                                   *)
(***************************************************************************)
EXTENDS Integers, Sequences, FiniteSets

CONSTANTS
    Proc,       \* the processes
    Setups,     \* deployments, with the bounds of their behaviours
    Nobody      \* value of a lock's key that does not exist

Stores == {"database", "redis", "keyspaces"}

\* The modes; an unknown one is taken for the default.
Modes == {"api", "worker", "db_migration", "db_seed", "default"}

ASSUME DaemonAssumption ==
    /\ Nobody \notin Proc
    /\ \A s \in Setups : s.mode \in [Proc -> Modes] /\ s.enabled \subseteq Stores
                          /\ s.boots \in [Proc -> Nat]
                          /\ s.may \subseteq {"break", "crash", "lose"}
                          /\ {s.faults, s.tasks, s.runs} \subseteq Nat

VARIABLES
    setup,      \* mode: the -m flag of each process; enabled: the stores that have a
                \* name in the configuration; requests: what the API may be asked for;
                \* may: the faults there are;
                \* boots, faults, tasks, runs: bounds
    proc,       \* the memory of each process
    healthy,    \* the stores that answer
    lock,       \* the owner of the locks "scheduler" and "unique"
    schema,     \* "old", "migrated" or "seeded"
    boots, faults

daemonVars == <<setup, proc, healthy, lock, schema, boots, faults>>

Locks == {"scheduler", "unique"}

\* The daemons of a mode that others depend on, in their order; the last one is
\* the health check, or a daemon that shuts the process down.
ApiWork == <<"connectors", "worker", "api", "health">>
WorkerWork == <<"connectors", "worker", "servers", "health">>
MigrationWork == <<"connectors", "migrate", "exit">>
SeedWork == <<"connectors", "migrate", "seed", "exit">>
DefaultWork == <<"connectors", "migrate", "api", "health">>

\* Faulty variant: the servers start before the worker service, and stop after it.
WorkServersFirst(mode) ==
    IF mode = "worker" THEN <<"connectors", "servers", "worker", "health">> ELSE ApiWork

Work(mode) ==
    CASE mode = "api" -> ApiWork
      [] mode = "worker" -> WorkerWork
      [] mode = "db_migration" -> MigrationWork
      [] mode = "db_seed" -> SeedWork
      [] mode = "default" -> DefaultWork

Daemon(p) == Work(setup.mode[p])

\* A process that is not running, and one before its first daemon.
Down == [phase |-> "down", at |-> 0, client |-> FALSE, submitter |-> FALSE,
         handlers |-> FALSE, managers |-> {}, acquired |-> {}, entries |-> 0, api |-> FALSE,
         servers |-> "none", shutting |-> FALSE]

DaemonInit ==
    /\ setup \in Setups
    /\ proc = [p \in Proc |-> Down]
    /\ healthy = Stores
    /\ lock = [l \in Locks |-> Nobody]
    /\ schema = "old"
    /\ boots = [p \in Proc |-> 0] /\ faults = 0

DaemonTypeOK ==
    /\ setup \in Setups
    /\ \A p \in Proc :
        /\ proc[p].phase \in {"down", "starting", "up", "stopping"}
        /\ proc[p].at \in 0 .. Len(Daemon(p))
        /\ proc[p].managers \subseteq Locks /\ proc[p].acquired \subseteq Locks
        /\ proc[p].servers \in {"none", "up", "draining", "down"}
    /\ healthy \subseteq Stores
    /\ lock \in [Locks -> Proc \cup {Nobody}]
    /\ schema \in {"old", "migrated", "seeded"}
    /\ \A p \in Proc : boots[p] \in 0 .. setup.boots[p]
    /\ faults \in 0 .. setup.faults

Up(s) == s \in healthy
Fault(kind) == kind \in setup.may /\ faults < setup.faults /\ faults' = faults + 1
Set(p, state) == proc' = [proc EXCEPT ![p] = state]

-----------------------------------------------------------------------------
(* Start                                                                   *)

\* SetupDatabase, SetupRedis and SetupKeyspaces: each does nothing when its store
\* has no name, and panics when it does not answer.
SetupDatabasePanics == "database" \in setup.enabled /\ ~Up("database")
SetupRedisPanics == "redis" \in setup.enabled /\ ~Up("redis")
SetupKeyspacesPanics == "keyspaces" \in setup.enabled /\ ~Up("keyspaces")

\* The connectors panic one after the other, the migration without its database,
\* the worker without a Redis.
Panics(d) ==
    \/ d = "connectors" /\ (SetupDatabasePanics \/ SetupRedisPanics \/ SetupKeyspacesPanics)
    \/ d = "migrate" /\ SetupDatabasePanics
    \/ d = "worker" /\ "redis" \notin setup.enabled

\* The client and the submitter of package internal.
StartClient(state) == [state EXCEPT !.client = TRUE, !.submitter = TRUE]

\* The handlers, and the manager of the scheduler.
RegisterService(state) == [state EXCEPT !.handlers = TRUE, !.managers = {"scheduler"}]

\* Two servers, and the manager of the server "unique".
StartService(state) == [state EXCEPT !.servers = "up", !.managers = @ \cup {"unique"}]

\* What a daemon that starts does to its process.
Started(state, d) ==
    IF d = "worker" THEN RegisterService(StartClient(state))
    ELSE IF d = "servers" THEN StartService(state)
    ELSE IF d = "api" THEN [state EXCEPT !.api = TRUE]
    ELSE state

\* The migration, and the seeds: a seed that fails is logged and forgotten.
Schema(d, ok) ==
    IF d = "migrate" /\ "database" \in setup.enabled THEN "migrated"
    ELSE IF d = "seed" /\ ok /\ {"database", "keyspaces"} \cap setup.enabled # {} THEN "seeded"
    ELSE schema

Boot(p) ==
    /\ proc[p].phase = "down" /\ boots[p] < setup.boots[p]
    /\ boots' = [boots EXCEPT ![p] = @ + 1]
    /\ Set(p, [Down EXCEPT !.phase = "starting"])
    /\ UNCHANGED <<setup, healthy, lock, schema, faults>>

StartDaemon(p) ==
    LET at == proc[p].at + 1
        d == Daemon(p)[at]
        last == at = Len(Daemon(p))
    IN
    /\ proc[p].phase = "starting" /\ ~Panics(d)
    /\ Set(p, [Started(proc[p], d) EXCEPT !.at = at,
            !.phase = IF d = "exit" THEN "stopping" ELSE IF last THEN "up" ELSE "starting"])
    /\ \E ok \in BOOLEAN : schema' = Schema(d, ok)
    /\ UNCHANGED <<setup, healthy, lock, boots, faults>>

\* main: the service that cannot start is shut down, if the panic left it alive.
StartFails(p) ==
    /\ proc[p].phase = "starting" /\ Panics(Daemon(p)[proc[p].at + 1])
    /\ \/ Set(p, Down)
       \/ proc[p].at > 0 /\ Set(p, [proc[p] EXCEPT !.phase = "stopping"])
    /\ UNCHANGED <<setup, healthy, lock, schema, boots, faults>>

-----------------------------------------------------------------------------
(* Locks, faults                                                           *)

\* What the manager takes for granted between two looks at its key.
Owns(p, l) == l \in proc[p].acquired

\* The manager gets the lock and starts its runner: the scheduler's registers
\* the cron tasks.
Acquire(p, l) ==
    /\ l \in proc[p].managers /\ ~Owns(p, l) /\ lock[l] = Nobody /\ Up("redis")
    /\ lock' = [lock EXCEPT ![l] = p]
    /\ Set(p, [proc[p] EXCEPT !.acquired = @ \cup {l},
                              !.entries = @ + IF l = "scheduler" THEN 1 ELSE 0])
    /\ UNCHANGED <<setup, healthy, schema, boots, faults>>

\* The lease of a process that has gone, or could not give its lock back.
Expire(l) ==
    /\ lock[l] # Nobody /\ ~Owns(lock[l], l)
    /\ lock' = [lock EXCEPT ![l] = Nobody]
    /\ UNCHANGED <<setup, proc, healthy, schema, boots, faults>>

Break(s) == s \in healthy /\ Fault("break") /\ healthy' = healthy \ {s}
            /\ UNCHANGED <<setup, proc, lock, schema, boots>>

Heal(s) == s \notin healthy /\ healthy' = healthy \cup {s}
           /\ UNCHANGED <<setup, proc, lock, schema, boots, faults>>

Crash(p) == proc[p].phase # "down" /\ Fault("crash") /\ Set(p, Down)
            /\ UNCHANGED <<setup, healthy, lock, schema, boots>>

-----------------------------------------------------------------------------
(* Stop                                                                    *)

\* ScheduleSelfHealthCheck, each minute, or a signal.
Shutdown(p) ==
    /\ proc[p].phase = "up"
    /\ Set(p, [proc[p] EXCEPT !.phase = "stopping"])
    /\ UNCHANGED <<setup, healthy, lock, schema, boots, faults>>

Stopping(p, d) == proc[p].phase = "stopping" /\ proc[p].at > 0 /\ Daemon(p)[proc[p].at] = d

Stopped(p, state) ==
    Set(p, IF proc[p].at = 1 THEN Down ELSE [state EXCEPT !.at = @ - 1])

\* Daemons whose Stop does nothing, and the API.
StopDaemon(p) ==
    /\ \E d \in {"connectors", "migrate", "seed", "exit", "health", "api"} :
        Stopping(p, d)
    /\ Stopped(p, [proc[p] EXCEPT !.api = FALSE])
    /\ UNCHANGED <<setup, healthy, lock, schema, boots, faults>>

\* Faulty variant: the flag is set when the servers are down.
BeginDrainSilently(state) ==
    [state EXCEPT !.servers = "draining", !.managers = @ \ {"unique"}, !.acquired = @ \ {"unique"}]

\* StopService: the flag first, then the unique server, then the others.
BeginDrain(state) ==
    [state EXCEPT !.shutting = TRUE, !.servers = "draining",
                  !.managers = @ \ {"unique"}, !.acquired = @ \ {"unique"}]

Release(p, l) ==
    \/ Owns(p, l) /\ Up("redis") /\ lock' = [lock EXCEPT ![l] = Nobody]
    \/ (~Owns(p, l) \/ ~Up("redis")) /\ UNCHANGED lock

StopService(p) ==
    /\ Stopping(p, "servers") /\ proc[p].servers = "up"
    /\ Release(p, "unique")
    /\ Set(p, BeginDrain(proc[p]))
    /\ UNCHANGED <<setup, healthy, schema, boots, faults>>

\* UnRegisterService: the manager gives its lock back, then its runner stops.
UnRegisterService(p) ==
    /\ Stopping(p, "worker") /\ "scheduler" \in proc[p].managers
    /\ Release(p, "scheduler")
    /\ Set(p, [proc[p] EXCEPT !.managers = {}, !.acquired = {}])
    /\ UNCHANGED <<setup, healthy, schema, boots, faults>>

\* StopClient; the submitter stays behind.
StopClient(p) ==
    /\ Stopping(p, "worker") /\ proc[p].managers = {} /\ proc[p].entries = 0
    /\ Stopped(p, [proc[p] EXCEPT !.client = FALSE])
    /\ UNCHANGED <<setup, healthy, lock, schema, boots, faults>>

=============================================================================
