------------------------------ MODULE MCTasks ------------------------------
(* Instances of Tasks for TLC. *)
EXTENDS Tasks, TLC

\* Two handlers: one is retried and its result kept; one, of the queue of the
\* single server, dispatches the first.
Handlers == [log |-> [queue |-> "", retry |-> 1, retention |-> 1, unique |-> 0, id |-> "", timeout |-> 1],
             sync |-> [queue |-> "unique", retry |-> 0, retention |-> 0, unique |-> 1, id |-> "sync", timeout |-> 0]]

Dispatches == [log |-> NoRequest, sync |-> [type |-> "log", opts |-> <<>>]]

Hourly == [type |-> "sync", opts |-> <<>>]
Critical == [type |-> "log", opts |-> [queue |-> "critical"]]
Later == [type |-> "log", opts |-> [queue |-> "critical", delay |-> 1]]

Pair(a, b) == (1 :> a) @@ (2 :> b)

Setup(a, b, reqs, bs, may, ts, rs) ==
    [mode |-> Pair(a, b), enabled |-> {"redis", "database"}, requests |-> reqs,
     boots |-> bs, may |-> may, faults |-> 1, tasks |-> ts, runs |-> rs]

\* One store or process that fails, one lock that is lost.
AnyFault == {"break", "crash", "lose"}

Deployments ==
    {   \* a worker, its cron and its dispatches; with restarts and faults
        Setup("worker", "api", {}, <<1, 0>>, {}, 2, 2),
        Setup("worker", "api", {}, <<1, 0>>, AnyFault, 2, 1),
        Setup("worker", "api", {}, <<2, 0>>, AnyFault, 1, 2),
        Setup("worker", "api", {}, <<2, 0>>, {"crash"}, 2, 1),
        \* a task goes from one worker to the other
        Setup("worker", "worker", {}, <<1, 1>>, {"crash", "lose"}, 1, 2),
        \* an API that delays a task beside a worker
        Setup("api", "worker", {Later}, <<1, 1>>, {}, 1, 1),
        \* calls of Execute
        Setup("api", "api", {}, <<1, 0>>, AnyFault, 0, 2),
        \* modes without a worker service
        Setup("default", "db_seed", {Critical}, <<1, 2>>, AnyFault, 0, 0),
        Setup("default", "db_migration", {Critical}, <<1, 1>>, {}, 0, 0),
        \* a deployment without a database
        [Setup("default", "worker", {Critical}, <<1, 1>>, {}, 0, 0) EXCEPT !.enabled = {"redis"}]}

=============================================================================
