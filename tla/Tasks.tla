------------------------------- MODULE Tasks -------------------------------
(***************************************************************************)
(* Tasks of app/worker: submission with the handler's options, the life of *)
(* a task in a server (_Process: Before, Run, After, FlushResult), the     *)
(* staged result, the synchronous Execute, and what a shutdown, a crash or *)
(* a lost lock does to tasks that are under way.                           *)
(*                                                                         *)
(* The queues are asynq's, modelled from how the code uses them: a server  *)
(* takes a pending task, waits for the handler, and records its outcome;   *)
(* a run that it gives up (deadline, drain) goes on without being heard.   *)
(***************************************************************************)
EXTENDS Daemons

CONSTANTS
    Handler,    \* what the methods of each registered handler return
    Child,      \* the request a handler submits from Run, or NoRequest
    Writer,     \* the types whose handlers call Write, beside what they stage
    Cron,       \* the request of the cron entry
    NoRequest

VARIABLES
    tasks,      \* the tasks accepted, as asynq keeps them
    runs,       \* the goroutines in a handler; id 0 is a call of Execute
    panics      \* who found the client nil: a mode, or the context of a run

taskVars == <<tasks, runs, panics>>
vars == <<daemonVars, taskVars>>

Stages == {"before", "run", "after"}
Waiting == {"scheduled", "pending", "retry"}
Queues == {"critical", "share", "default", "low", "emails", "unique"}
Final == {"done", "archived", "deleted"}

\* What may be asked for: by a client of the API, by the cron, by a handler.
Requests ==
    ({Cron} \cup {Child[type] : type \in DOMAIN Child} \cup UNION {s.requests : s \in Setups})
        \ {NoRequest}

\* Handlers and callers name queues that are served; a handler that leaves the
\* queue or the retries to others returns "" or a negative number.
ASSUME RequestAssumption ==
    /\ DOMAIN Child = DOMAIN Handler /\ Cron # NoRequest
    /\ \A s \in Setups : NoRequest \notin s.requests
    /\ \A type \in DOMAIN Handler :
        /\ "queue" \in DOMAIN Handler[type] => Handler[type].queue \in Queues \cup {""}
        /\ "retry" \in DOMAIN Handler[type] => Handler[type].retry \in Int
    /\ \A req \in Requests :
        /\ "queue" \in DOMAIN req.opts => req.opts.queue \in Queues
        /\ "retry" \in DOMAIN req.opts => req.opts.retry \in Nat

TypeOK ==
    /\ DaemonTypeOK
    /\ \A i \in DOMAIN tasks :
        /\ tasks[i].state \in Waiting \cup Final \cup {"active"}
        /\ tasks[i].opts.queue \in Queues /\ tasks[i].result \in 0 .. tasks[i].tries
        /\ tasks[i].failed \in 0 .. tasks[i].opts.retry
        /\ tasks[i].tries \in Nat /\ tasks[i].flushed \in BOOLEAN
        /\ tasks[i].good \subseteq 1 .. tasks[i].tries
    /\ \A r \in runs :
        /\ r.p \in Proc /\ r.id \in 0 .. Len(tasks)
        /\ r.stage \in Stages \cup {"flush", "ok", "failed", "panic"}
        /\ r.ctx \in {"live", "deadline", "canceled", "lost"}

Init ==
    /\ DaemonInit
    /\ tasks = <<>> /\ runs = {} /\ panics = {}

-----------------------------------------------------------------------------
(* Submission                                                              *)

\* Faulty variant: an empty queue is an option, too.
IsSetEmpty(option, v) == option \in {"unique", "timeout", "retention"} => v > 0

\* handlerToAsynqOptions: the methods that return something.
IsSet(option, v) ==
    /\ option \in {"retention", "unique", "timeout"} => v > 0
    /\ option = "retry" => v >= 0
    /\ option \in {"queue", "id"} => v # ""

HandlerOpts(type) ==
    IF type \in DOMAIN Handler
    THEN [o \in {o \in DOMAIN Handler[type] : IsSet(o, Handler[type][o])} |-> Handler[type][o]]
    ELSE <<>>

\* mergeOptions: a later option wins, and the caller's come last.
Merge(handler, submit) ==
    [o \in DOMAIN handler \cup DOMAIN submit |-> IF o \in DOMAIN submit THEN submit[o] ELSE handler[o]]

\* What asynq takes an option that is not given for.
Default == [queue |-> "default", retry |-> 25, retention |-> 0, unique |-> 0, id |-> "", delay |-> 0]

Options(req) == Merge(Default, Merge(HandlerOpts(req.type), req.opts))

\* asynq keeps a task until it is done, or for its retention.
Kept(t) == t.state # "deleted" /\ (t.state = "done" => t.opts.retention > 0)

\* Another task has the ID, or holds the uniqueness lock of its queue.
Conflicts(req) ==
    LET o == Options(req) IN
    \E i \in DOMAIN tasks : LET t == tasks[i] IN
        \/ o.id # "" /\ t.opts.id = o.id /\ Kept(t)
        \/ /\ o.unique > 0 /\ t.opts.unique > 0 /\ t.state \notin Final
           /\ t.type = req.type /\ t.opts.queue = o.queue

\* Redis refuses, or the task is accepted.
Enqueue(req) ==
    IF Up("redis") /\ ~Conflicts(req)
    THEN /\ Len(tasks) < setup.tasks
         /\ tasks' = Append(tasks,
                [type |-> req.type, opts |-> Options(req), tries |-> 0, failed |-> 0,
                 result |-> 0, flushed |-> FALSE, good |-> {},
                 state |-> IF Options(req).delay > 0 THEN "scheduled" ELSE "pending"])
    ELSE UNCHANGED tasks

\* Submit by a request to the API; `live' says whose context it is.
Submit(p, req) ==
    /\ proc[p].api
    /\ IF proc[p].client THEN Enqueue(req) /\ UNCHANGED panics
       ELSE /\ panics' = panics \cup {setup.mode[p]}
            /\ UNCHANGED tasks
    /\ UNCHANGED <<daemonVars, runs>>

\* The scheduler fires its entries.
CronFires(p) ==
    /\ proc[p].entries > 0 /\ Enqueue(Cron)
    /\ UNCHANGED <<daemonVars, runs, panics>>

-----------------------------------------------------------------------------
(* A run                                                                   *)

NewRun(p, id, n, known) ==
    [p |-> p, id |-> id, n |-> n, stage |-> IF known THEN "before" ELSE "failed",
     ctx |-> "live", staged |-> 0, cached |-> 0, wrote |-> 0, notified |-> FALSE]

Becomes(r, s) == runs' = (runs \ {r}) \cup {s}

\* Faulty variant: a second Result() finds nothing once it has been flushed.
ResultStaged(r) == r.staged

\* Result(): the envelope that was built first, or the one that is staged.
Result(r) == IF r.cached # 0 THEN r.cached ELSE r.staged

\* A server takes a task of one of its queues.
Serves(p, queue) ==
    /\ proc[p].servers = "up" /\ Up("redis")
    /\ queue \in Queues /\ (queue = "unique" => Owns(p, "unique"))

Take(p, i) ==
    LET n == tasks[i].tries + 1 IN
    /\ tasks[i].state = "pending" /\ Serves(p, tasks[i].opts.queue) /\ Cardinality(runs) < setup.runs
    /\ tasks' = [tasks EXCEPT ![i].state = "active", ![i].tries = n]
    /\ runs' = runs \cup {NewRun(p, i, n, proc[p].handlers /\ tasks[i].type \in DOMAIN Handler)}
    /\ UNCHANGED <<daemonVars, panics>>

\* Execute: a handler that is not registered gets asynq.NotFound.
Execute(p) ==
    /\ proc[p].api /\ proc[p].handlers /\ Cardinality(runs) < setup.runs
    /\ runs' = runs \cup {NewRun(p, 0, 1, TRUE)}
    /\ UNCHANGED <<daemonVars, tasks, panics>>

\* Faulty variant: whatever the context.
WritesLate(r) == r.id # 0 /\ Up("redis")

\* The result writer refuses once the context is done, and nobody looks at its
\* error; Execute has no writer.
Writes(r) == r.id # 0 /\ r.ctx = "live" /\ Up("redis")

\* The stages of _Process.
NextStage(stage) ==
    CASE stage = "before" -> "run" [] stage = "run" -> "after"
      [] stage = "after" -> "flush" [] stage = "flush" -> "ok"

\* A run that comes to the end of its stages is a good one.
Goes(r, s) ==
    LET next == NextStage(r.stage)
        flushes == r.stage = "flush" /\ r.staged # 0 /\ Writes(r)
    IN
    /\ Becomes(r, [s EXCEPT !.stage = next])
    /\ tasks' = IF r.id = 0 THEN tasks ELSE [tasks EXCEPT
            ![r.id].good = IF next = "ok" THEN @ \cup {r.n} ELSE @,
            ![r.id].result = IF flushes THEN Result(r) ELSE @,
            ![r.id].flushed = @ \/ flushes]

\* Before, Run and After return nil; Run may stage a result, named by its try.
Succeed(r) ==
    /\ r.stage \in Stages
    /\ \/ Goes(r, r)
       \/ r.stage = "run" /\ Goes(r, [r EXCEPT !.staged = r.n, !.wrote = r.n])
    /\ UNCHANGED <<daemonVars, panics>>

\* Before, Run or After calls Write itself: that result is stored at once.
Write(r) ==
    /\ r.stage \in Stages /\ Writes(r) /\ tasks[r.id].type \in Writer
    /\ tasks' = [tasks EXCEPT ![r.id].result = r.n, ![r.id].flushed = FALSE]
    /\ UNCHANGED <<daemonVars, runs, panics>>

CanceledByShutdown(r, err) ==
    proc[r.p].shutting /\ (err = "canceled" \/ r.ctx \in {"canceled", "lost"})

\* One of them returns an error, Run perhaps after a Write: nothing is flushed,
\* and a cancellation by the shutdown is reported to Slack.
Fail(r) ==
    /\ r.stage \in Stages
    /\ \E err \in {"canceled", "other"}, n \in {r.wrote} \cup IF r.stage = "run" THEN {r.n} ELSE {} :
        Becomes(r, [r EXCEPT !.stage = "failed", !.staged = n, !.wrote = n,
                             !.notified = CanceledByShutdown(r, err)])
    /\ UNCHANGED <<daemonVars, tasks, panics>>

\* Run submits another task; asynq recovers a panic.
SelfDispatch(r) ==
    /\ r.stage = "run" /\ r.id # 0 /\ Child[tasks[r.id].type] # NoRequest /\ proc[r.p].submitter
    /\ IF proc[r.p].client
       THEN Enqueue(Child[tasks[r.id].type]) /\ UNCHANGED <<runs, panics>>
       ELSE /\ panics' = panics \cup {r.ctx}
            /\ Becomes(r, [r EXCEPT !.stage = "panic"]) /\ UNCHANGED tasks
    /\ UNCHANGED <<daemonVars>>

FlushResult(r) ==
    /\ r.stage = "flush"
    /\ Goes(r, IF r.staged = 0 THEN r ELSE [r EXCEPT !.staged = 0, !.cached = Result(r)])
    /\ UNCHANGED <<daemonVars, panics>>

\* Execute returns, with what its handler had staged even if it failed.
Returns(r) ==
    /\ r.stage \in {"ok", "failed"} /\ r.id = 0
    /\ runs' = runs \ {r}
    /\ UNCHANGED <<daemonVars, tasks, panics>>

-----------------------------------------------------------------------------
(* The servers                                                             *)

Failed(t) ==
    IF t.failed < t.opts.retry THEN [t EXCEPT !.state = "retry", !.failed = @ + 1]
    ELSE [t EXCEPT !.state = "archived"]

\* The outcome of a run, unless the server has given it up.
Outcome(r) ==
    /\ r.stage \in {"ok", "failed", "panic"} /\ r.id # 0 /\ (r.ctx = "live" => Up("redis"))
    /\ runs' = runs \ {r}
    /\ tasks' = IF r.ctx # "live" THEN tasks
                ELSE [tasks EXCEPT ![r.id] =
                        IF r.stage = "ok" THEN [@ EXCEPT !.state = "done"] ELSE Failed(@)]
    /\ UNCHANGED <<daemonVars, panics>>

\* The handler's Timeout.
Deadline(r) ==
    /\ r.ctx = "live" /\ r.stage \in Stages \cup {"flush"}
    /\ Becomes(r, [r EXCEPT !.ctx = "deadline"])
    /\ tasks' = IF r.id = 0 \/ ~Up("redis") THEN tasks ELSE [tasks EXCEPT ![r.id] = Failed(@)]
    /\ UNCHANGED <<daemonVars, panics>>

\* A delay or the pause before a retry is over; a lease of a dead server ends.
Due(i) ==
    /\ Up("redis") /\ \E p \in Proc : proc[p].servers = "up"
    /\ \/ tasks[i].state \in {"scheduled", "retry"} /\ tasks' = [tasks EXCEPT ![i].state = "pending"]
       \/ /\ tasks[i].state = "active" /\ \A r \in runs : r.id = i => r.ctx # "live"
          /\ tasks' = [tasks EXCEPT ![i] = Failed(@)]
    /\ UNCHANGED <<daemonVars, runs, panics>>

Live(p) == {r \in runs : r.p = p /\ r.id # 0 /\ r.ctx = "live"}

\* A server that stops gives up its runs: those still in their handler are
\* cancelled, and the tasks go back to the queue, if Redis answers.
GiveUp(rs, ctx) ==
    /\ runs' = (runs \ rs) \cup {[r EXCEPT !.ctx = ctx] : r \in {s \in rs : s.stage \in Stages \cup {"flush"}}}
    /\ tasks' = [i \in DOMAIN tasks |->
        IF Up("redis") /\ \E r \in rs : r.id = i
        THEN [tasks[i] EXCEPT !.state = "pending"] ELSE tasks[i]]

\* Shutdown of the servers: the runs are done, or have had their time.
EndDrain(p) ==
    /\ Stopping(p, "servers") /\ proc[p].servers = "draining"
    /\ Stopped(p, [proc[p] EXCEPT !.servers = "down"])
    /\ GiveUp(Live(p), "canceled")
    /\ UNCHANGED <<setup, healthy, lock, schema, boots, faults, panics>>

\* Faulty variant: the entries stay in the scheduler.
UnregisteredNone(state) == state

\* _SchedulerRunner.Shutdown: the entries go, and every delayed task of every
\* queue, whoever submitted it.
Unregistered(state) == [state EXCEPT !.entries = 0]

DeleteAllScheduled(p) ==
    IF proc[p].client /\ Up("redis")
    THEN [i \in DOMAIN tasks |-> IF tasks[i].state = "scheduled"
                                 THEN [tasks[i] EXCEPT !.state = "deleted"] ELSE tasks[i]]
    ELSE tasks

SchedulerShutdown(p) ==
    /\ Stopping(p, "worker") /\ proc[p].managers = {} /\ proc[p].entries > 0
    /\ Set(p, Unregistered(proc[p]))
    /\ tasks' = DeleteAllScheduled(p)
    /\ UNCHANGED <<setup, healthy, lock, schema, boots, faults, runs, panics>>

\* A manager finds its key gone, or cannot read or renew it, and shuts its
\* runner down.
Lose(p, l) ==
    LET without == [proc[p] EXCEPT !.acquired = @ \ {l}] IN
    /\ Owns(p, l) /\ Fault("lose")
    /\ IF l = "scheduler"
       THEN Set(p, Unregistered(without)) /\ tasks' = DeleteAllScheduled(p) /\ UNCHANGED runs
       ELSE Set(p, without) /\ GiveUp({r \in Live(p) : tasks[r.id].opts.queue = "unique"}, "lost")
    /\ UNCHANGED <<setup, healthy, lock, schema, boots, panics>>

-----------------------------------------------------------------------------
\* A process that ends takes its goroutines with it.
Process(step) ==
    /\ step
    /\ runs' = {r \in runs : proc'[r.p].phase # "down"}
    /\ UNCHANGED <<tasks, panics>>

DaemonStep(p) ==
    \/ Boot(p) \/ StartDaemon(p) \/ StartFails(p) \/ Crash(p) \/ Shutdown(p)
    \/ StopDaemon(p) \/ StopService(p) \/ UnRegisterService(p) \/ StopClient(p)
    \/ \E l \in Locks : Acquire(p, l)

World == (\E l \in Locks : Expire(l)) \/ (\E s \in setup.enabled : Break(s) \/ Heal(s))

TaskStep ==
    \/ \E p \in Proc :
        \/ \E req \in setup.requests : Submit(p, req)
        \/ CronFires(p) \/ Execute(p)
        \/ EndDrain(p) \/ SchedulerShutdown(p)
        \/ \E i \in DOMAIN tasks : Take(p, i)
        \/ \E l \in Locks : Lose(p, l)
    \/ \E r \in runs :
        \/ Succeed(r) \/ Write(r) \/ Fail(r) \/ SelfDispatch(r) \/ FlushResult(r)
        \/ Returns(r) \/ Outcome(r) \/ Deadline(r)
    \/ \E i \in DOMAIN tasks : Due(i)

Next == (\E p \in Proc : Process(DaemonStep(p))) \/ Process(World) \/ TaskStep

Spec == Init /\ [][Next]_vars

(***************************************************************************)
(* Correctness                                                             *)
(***************************************************************************)

\* While a server works, its handlers are registered and the client is open;
\* only a run that was given up, or an API without a worker service (mode
\* default), finds the client nil; that API, if it has a database, serves a
\* migrated schema.
InOrder ==
    /\ \A p \in Proc : proc[p].servers \in {"up", "draining"} => proc[p].client /\ proc[p].handlers
    /\ panics \subseteq {"default", "deadline", "canceled", "lost"}
    /\ \A p \in Proc : proc[p].api /\ setup.mode[p] = "default" /\ "database" \in setup.enabled =>
            schema # "old"

\* A run that the shutdown of its process has cancelled does not end in an
\* error without being reported.
CancelReported ==
    \A r \in runs : r.ctx = "canceled" /\ r.stage = "failed" => r.notified

\* A result that was staged is stored for a task only by a run that went through
\* all its stages, After included; one that a handler writes itself may be of a
\* run that fails.  Either way a run that was given up, and goes on beside its
\* retry, does not put its result in the place of a later one
\* (service.go:140, handler.go:95).
ResultOfGoodRun ==
    /\ [](\A i \in DOMAIN tasks : tasks[i].flushed => tasks[i].result \in tasks[i].good)
    /\ [][\A i \in DOMAIN tasks : tasks'[i].result >= tasks[i].result]_vars

\* Execute gives back what its handler has staged, whether it fails or not.
ExecuteTold ==
    \A r \in runs : r.id = 0 /\ r.stage \in {"ok", "failed"} => Result(r) = r.wrote

\* However often the scheduler's lock is lost and taken, its entries are
\* registered once.
CronOnce == \A p \in Proc : proc[p].entries <= 1

=============================================================================
