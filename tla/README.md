# Verification of goth-scaffold

TLA+ specifications of the parts of goth-scaffold whose correctness depends on the
order of events: the distributed lock of the workers, the processes and their
tasks, transactions with retry, upserts and seeds, filters and sorts that are split
between SQL and memory, cached associations, and the Cassandra repository.  TLC
checks them on small instances; TLAPS proves every safety property that a run checks,
for every value of the constants.

    tlc -workers 2 -config SingleInstance_safety.cfg MCSingleInstance
    tlapm SingleInstanceProofs.tla

Paths below are relative to `src/app`.

## 1. The system

goth-scaffold is a Go service. One binary runs, by preset, as an HTTP API, as a
worker, as a migration or as a seeder. Processes share a SQL database (MySQL or
PostgreSQL), Redis and, when configured, a Cassandra-compatible key space.

| Component | State | Operations | Talks to | Hard behaviour | What makes it correct |
|---|---|---|---|---|---|
| single-instance lock, `worker/service.go:507-634` | `acquired`, context, ticker; a Redis key | `Start`, `Stop`, `tryAcquire`, `keepAlive`, `release`, `manage` | Redis, a runner | two Redis calls per operation, leases, lost answers, stalls, crashes | one owner, one runner, fail-over, `Stop` returns |
| scheduler runner, `worker/service.go:429-505` | entries, `running`, `done` | `Start`, `Shutdown` | lock, asynq's scheduler and inspector | started and shut down by the lock, deletes tasks of all queues | entries registered exactly while it runs |
| worker service, `worker/service.go:269-400` | global client, inspector, servers, `shuttingDown` | `StartClient/StopClient`, `StartService/StopService`, `RegisterService/UnRegisterService` | lock, asynq | order of start and stop, repeated calls | everything started is stopped, restart possible |
| tasks, `worker/service.go:92-257`, `worker/internal` | handler registry, staged and cached result | `_Process`, `Execute`, `Submit*`, `TaskInfo` | asynq | failing handlers, retries, cancellation by shutdown | a result is written once and says what happened |
| transactions with retry, `repositories/database_repository.go:161-392` | attempt, open `*sql.Tx`, context | `WithTransactionRetry(Context)`, `SaveTx`, `SaveRetryTx` | database session, dialect | deadlocks, lock waits, lost COMMIT answers, cancellation, panics | all or nothing, once, truthfully reported |
| upsert and first-or-create, `repositories/database_repository.go:526-634` | rows | `Upsert(Tx)`, `FirstOrCreate(Tx)` | database | look-then-create races, soft deletes | one row per key, one creator |
| seeds, `database/seed` | registry | `Register`, `RunAll`, `Run` | upsert | repeated, failed and concurrent runs | complete, in order, without duplicates |
| query filter, `components/queryfilter` | none (a request at a time) | parse, validate, build the scope and the predicate, sort | repositories | a filter and a sort evaluated in two places, pages | no match lost, nothing else returned, pages in order and complete |
| lazy and eager loading, `models/helper_lazy*.go` | cache per model and association | lazy getters, eager loaders, `Reload` | repositories | batches, nil results, stale caches | a model gets its own associations, and its own row |
| Cassandra repository, `repositories/cassandra_repository.go`, `models/helper_cassandra.go` | paging state | `UniqueCreate`, `Save`, `Delete`, `Fetch`, `Next` | gocql | lost answers, hooks, paging beside writers | nil means done, own row only, every row once |
| configuration and dialect, `conf`, `components/dialect` | cached pointers | `Config`, `Reload`, `Current` | everything | reload during use | readers see one version |
| daemons, `daemons` | ordered list | start, stop, self health check | everything | order, shutdown | stop in reverse order |
| migrations, connectors, HTTP handlers, external clients, crypto, helpers | none of their own or a `sync.Once` | | third parties | I/O | |

Interactions: daemon 21 calls `StartClient` and `RegisterService`, which starts the lock
of the scheduler; daemon 96 calls `StartService`, which starts the lock of the queue
"unique"; each lock drives a runner through `_InstanceRunner` (`Start`, `Shutdown`).  Daemon 92
calls `seed.RunAll`, whose seeds call `Upsert`.  Handlers build options from a
filter and pass them to `Find` and `First` of a repository; services wrap several
saves in `WithTransactionRetry`.

The hazards of the code, each with its line and the properties that cover it or why none
does, are listed in `PROJECT.json`.

## 2. Modules

| Module | Role |
|---|---|
| `RunnerLock` | abstract: what the worker service relies on |
| `SingleInstance`, `MCSingleInstance` | the lock: managers, Redis key, clock, faults |
| `SingleInstanceProofs` | inductive invariant, exclusion, no take-over, no leak, refinement of `RunnerLock` |
| `AtomicCall` | abstract: what the caller of a transaction relies on |
| `TransactionRetry`, `MCTransactionRetry` | the retry loop, the saves of a body, the database session |
| `TransactionRetryProofs` | invariant and refinement of `AtomicCall` |
| `Upsert`, `MCUpsert` | `UpsertTx` and `FirstOrCreateTx` raced by others; the seeds |
| `UpsertProofs` | no duplicates, races tolerated, one creator, seeds complete and in order |
| `QueryFilter` | the parser, the validation and the split of a filter, as operators |
| `QuerySort` | sort directives, in the database or in memory, as operators |
| `QueryRequest`, `MCQueryRequest` | a request with a filter and a sort: `Find` page by page, `First` |
| `QueryFilterProofs` | the parser is right for filters of any length; what the split keeps and lets through |
| `QueryRequestProofs` | requests: nothing lost, nothing extra, order of results, pages |
| `LazyLoading`, `MCLazyLoading` | accessors, eager batches, `Reload` of models with one association |
| `LazyLoadingProofs` | whose columns and whose association a model has, what `Eager` and `Reload` say |
| `Daemons` | processes: presets, start, stop, health check, locks, stores |
| `Tasks`, `MCTasks` | extends `Daemons`: submission, runs, results, asynq's queues |
| `TasksProofs` | order of start and stop, cancellations, results, cron entries, one holder per lock, the queue `unique` |
| `CassandraRepository`, `MCCassandraRepository` | writes between hooks; pages |
| `CassandraRepositoryProofs` | what callers are told, what their writes remove, that pages are exact |

Definitions called a mutant or a faulty variant in a comment are bugs on purpose:
each replaces the definition it precedes and must break the property it is listed
with.

### RunnerLock and SingleInstance

`RunnerLock` is what the worker service wants of the lock: it is taken when nobody holds
it, a runner begins while its process holds it, and it is not let go of before the
runner has ended, unless the process was asked to stop.  The exception is the code's:
`release` deletes the key first.  Nothing is promised once a process has slept through
a deadline (`overslept`).  `SingleInstance` implements it with the managers that rely on their key
(`Leased`) as holders; a lock that Redis has and no manager relies on is nobody's.

A manager is one `_SingleInstanceManager`, one per process.  `pc` is the point of
its goroutine: `setnx`, `setex`, `undo`, `start`, `unstart` are the calls of
`tryAcquire`; `get`, `renew`, `drop` those of `keepAlive`; `rel_get`, `rel_del`,
`rel_drain` those of `release`; `idle` is the `select` of `manage`.  `acquired`,
`cancelled` and `running` are `m.acquired`, `m.ctx` and whether the runner works.
`owner` and `ttl` are the key in Redis.

- A Redis call takes effect at one instant.  Its answer comes, or the call is
  refused before the effect, or the answer is lost after it; the last two are an
  error for the code.  Not modelled: a call that takes effect after the client has
  given up on it.
- Time is explicit.  A manager stays at a call for `Delay` at most, at a
  `Shutdown` for `Drain` at most, unless it has *stalled* (a GC pause, a suspended
  machine), which is an action.  `phase`, `due` and `Tick` are Go's ticker: fixed
  rate, one buffered tick.
- `m.mu` is not modelled: one goroutine at a time uses what it protects, since
  `Stop` calls `release` only after `manage` has closed `done`.
- asynq's own servers are external; that a server which has been shut down can be
  started again is taken for granted.

`TimeAssumption` is `Period + 4 * Delay + Drain < Lease`.  With the code's 15 s
lease, 5 s period and asynq's 8 s shutdown timeout it asks for calls of less than
half a second.  Beyond that, a runner may still drain in `keepAlive` when its
lease is over: the margin of the constants is that thin.

### TransactionRetry and AtomicCall

`pc` follows `WithTransactionRetryContext`: `check` (is the context done?),
`begin`, `body`, `rollback`, `abandon` (done before the commit), `commit`, `retry`
(`_Retry` decides), `wait` (`_WaitForTransactionRetry`).  The body is `N` saves;
a member of `retrying` is a `SaveRetryTx`.  The session is the external part:
what MySQL and PostgreSQL do to a transaction in which a statement fails.  On MySQL
a deadlock (1213) rolls back the transaction and the session goes on without one;
a lock wait timeout (1205) undoes the statement only.  PostgreSQL refuses every
statement until ROLLBACK.  A COMMIT may fail, or succeed with its answer lost.

`AtomicCall` is the promise: the writes take effect together, once or not at all,
and an error other than a fatal one means they did not.  After a fatal one the
caller cannot know: a lost COMMIT answer is of that class.

Told by the model, besides the finding: the `*sql.Tx` is not bound to the context,
so that a cancellation between the check before COMMIT and COMMIT itself does not
stop it (`CancelStops` is stated for what began after the cancellation); on
PostgreSQL the second statement of a `SaveRetryTx` gets 25P02, which is not
retryable and hides the deadlock from the outer loop.  The length of the back-off
is left out; it overflows from attempt 39 on, far beyond any `maxRetries` in use.

### Upsert

`Look`, `Create`, `Requery` and `Save` are the statements of `UpsertTx` and
`FirstOrCreateTx`, each committing by itself (`d.DB()`).  Callers are seeders, with
a list of keys and errors that end the list, and callers of `FirstOrCreate`.
`Fail` is an error of a hook or a statement, or a lost answer; `Crash` the death of
the process; `Remove` a soft delete.  `SetupAssumption` is what a caller's job may be; `Guarded`
is the condition under which rows are not doubled, a unique index or a single caller.
Inside a caller's transaction the duplicate branch behaves differently (MySQL's snapshot
does not show the winner's row, PostgreSQL has aborted the transaction): this is a
hazard without a property.

### QueryFilter

The parser, the validation and the split are operators on words and trees: `Where` is
the WHERE clause, `Passes` the predicate in memory.  A comparison is one token, named by
its field.  To a filter a row is a function from fields to BOOLEAN: what the database or
the FilterFn makes of the comparison.  The reference is the grammar, written as `Derives`
and `Means` by cutting a word at its connectives, without positions or lookahead.

A tree is a function from nodes to what they are, and a node is named by the place of
its token, so that two comparisons of one field are two nodes.  Recursion over a tree
(`Leaves`, `collectDBConds`, `Holds`, `evalNode`) is a recursive function on its nodes.
The parser is one too: `Parser(w)[<<"or", i, n>>]` is what `parseOr` at token `i` has in
`left` after `n` rounds of its loop; a round that finds no comma changes nothing, so that
what `parseOr` returns is the value after as many rounds as there are tokens.  No
definition is RECURSIVE: the proofs need that.

### QuerySort and QueryRequest

`QuerySort` has the operators.  A field has a SortColumn, a SortFn, both or neither, and
the two order by the same value.  `ParseSort` is its loop, a recursive function over the
parts of the parameter.  `SliceStable` and `Answers` are the results a stable sort and a
database may give, as sets of permutations.  The database answers in any order that
`ORDER BY` allows, so that rows that tie may change places between two pages.

A behaviour of `QueryRequest` is one request with a filter and a sort, either of which may
be empty: `FromRequest` parses both, `ToOption` validates both, `Find` or `First` asks the
database, `ApplyFilter` runs the one function that `buildInMemoryFn` makes of both: the
predicate, then the sort in memory.  `NextPage` asks again with the next OFFSET.  The
order matters: the database selects, sorts and cuts the page, and what is in memory sees
no more than that page, so that a FilterFn makes pages short, or empty, and a sort in
memory sorts within them.  A row of the table has the fields it is sorted by and, in `is`,
what filters see of it.

`Hits` are the rows that match by the grammar, whatever half of the filter decides it.  The
reference for the order, `Place`, reads a row as a number whose leading digit is the first
directive; it counts only fields with a SortFn in a mixed sort, as
`components/queryfilter/schema.go:25` says.  `PageIsFront` compares the rows seen with the
hits that have not been seen, `PagesComplete` adds the pages up: behind a FilterFn a client
cannot tell from a short page that it is the last (`LastPage`), only from an OFFSET at the end
of what the WHERE clause selects.

### LazyLoading

A behaviour looks at one association of the models of one page: its kind, foreign
key, references, scope and queriers are the `setup`.  `mem[o]` is a model in memory:
`row` its columns, `at` the state of the database it was read from, `cache` the
association: a set, empty or with one answer.  `log` is the history of the database;
every query may read any state of it, since queriers use `database.Reader()`.  `Lazy` is
an accessor (`Tags()`, `Setting()`), `Eager` an `Eager` or `EagerAll` option
(`_AutoEagerLoadFiltered`), `Find` a query, `Reload` and `ReloadAll` themselves;
`Querier` and `Can` are the interfaces a querier implements.  `SetupAssumption` says
which associations there are: a foreign key has a reference for each of its columns, or
the accessor panics.  The fields `key`, `at`, `failed` and `over` of an answer are
history: what was asked for, when, whether the query failed, and whether `Reload` has
overwritten the columns since.

One goroutine uses a page of models; that is how the handlers use them.
`ValidateLazyTags` (a panic at start), `ResolveHasMany` (no cache) and the panic of an
accessor whose `references` names fewer columns than its `foreignKey` are left out.

### Daemons and Tasks

`Daemons` is a set of processes, each with a mode.  `Work(mode)` is the preset: its
daemons in order, those that others depend on.  `StartDaemon` starts one of them
(`Started` says what it does: `StartClient`, `RegisterService`, `StartService`, the
API), `StartFails` is a panic and what `main` makes of it, `Shutdown` the health
check or a signal; `StopDaemon`, `StopService`, `UnRegisterService` and `StopClient`
run the list backwards.  `Work` knows all modes; `DaemonAssumption` says what a deployment
may be.  A lock is taken, lost and given back in one step each (`Acquire`, `Lose`,
`Release`, `Expire`); `acquired` is what its process believes, `lock` the key.  The steps
between are the subject of `SingleInstance`; what remains of them is `RunnerLock`:
`Acquire` is its `Take` and `Work`, `Lose` its `Quit`, `Release` its `Give`.

`Tasks` adds the tasks.  `Submit`, `CronFires` and `SelfDispatch` enqueue with
`Merge` of the handler's and the caller's options; `Take` starts a run, which goes
through the stages of `_Process` (`Before`, `Run`, `After`, `FlushResult`); `Execute`
is a run without a task.  A run's `staged`, `cached` and `wrote` are `TaskInfo`'s
result, its envelope, and what the handler staged; `ctx` is why its context is done.
`Write` is `TaskInfo.Write` called by the handler itself, at any of the three stages: it
stores its result at once, while asynq's result writer still takes it (`Writes`).  Only
the types of `Writer` do so.  `good` and `flushed` are history: the tries that went
through all stages, and whether the stored result is one that was staged.

Coarser than the code: `Serves` closes every queue when the drain begins, while
`StopService` stops the server of `unique` first and lets the others take tasks until it
is down (`worker/service.go:393`); a result that cannot be marshalled, and so makes
`FlushResult` fail, is left out.

External and modelled from their use: asynq (queues, uniqueness, retention, retries,
deadlines, drain, recovery after a lease) and kkdaemon (start in order, stop in
reverse).  A server that gives up a run leaves its goroutine behind, which is how
asynq stops; the goroutine ends with its process.  Payloads, priorities of queues and
the wording of reports are left out, as are daemons without effect on others
(logger, profiler, HTTP session).

### CassandraRepository

A call of `UniqueCreate`, `Save` or `Delete` is `Begin` (`PreSave`, `PreDelete`, the
query), `Statement` and `PostHook`.  A statement takes effect at one instant; its
answer may be lost before or after.  `applied` and `blame` are history: whether the
call's statement took effect, and what went wrong.  A model says which key columns its
struct has a field and a tag for (`columns`): `DeleteQuery` builds its condition from
these, so that a struct without the clustering column deletes its partition, and
`Accepted` is what Cassandra makes of a statement that lacks one.
A reader's pages are asked for by `DefaultCassandraQueryOption`, by the builder or by
the last result's `Next()`; `Operate` is what each option does to the query, in their
order.  Rows come and go between two pages; `stable` are those that stayed.

## 3. Runs

| Run | Instance | Shows |
|---|---|---|
| `si_safety` | 2 managers, 2 faults, 1 stall | types; the lock implements `RunnerLock` (`LockSpec`); it is exclusive; runners overlap only while `release` drains; runner and lock agree; the key is never overwritten, deleted by its own manager only, expires only when nobody holds it, and is not leaked without a fault |
| `si_live` | 2 managers, 1 fault or 1 stall | `Stop` returns; fail-over, unless the key leaked; two believers do not stay two |
| `si_overlap` | as `si_safety` | violation: two runners at once on a clean hand-over |
| `tx_safe` | 3 saves, 3 statements per `SaveRetryTx`, maxRetries 0, 1, 3, both databases | types; atomic and truthful (`AtomicSpec`), no transaction left, cancellation stops, the call returns |
| `tx_mysql` | one `SaveRetryTx` on MySQL | violation: nil returned, saves lost |
| `upsert_sound` | 2 callers, 2 keys, 2 faults, 3 runs, 1 removal | no duplicates, no spurious error, one creator, complete and ordered seeds |
| `upsert_seeders` | 2 seeders, no unique index | violation: a setting doubled |
| `filter_split` | all words of 4 tokens, of 5 over two levels, all groupings of three fields; requests of up to 2 sort directives, of 3 over two columns and a SortFn; both together, for 3 filters, 5 sorts and every way 3 rows can match; tables with ties, limits 0, 1, 2 | parser and tree are right; nothing lost by `Find` nor, but for the one row of a FilterFn, by `First`; nothing extra unless an OR mixes levels; pages in order, the front of the rows that match and together all of them, however thin a FilterFn leaves them |
| `filter_or` | words of 3 tokens | violation: an OR that mixes levels filters nothing |
| `lazy` | 2 models, 2 rows they may hold, 7 associations, 5 sets of queriers, 1 write, 1 failed query | each cache is an answer for this model's key; own row; eager pages ask no more; `Reload` is honest |
| `tasks` | 10 deployments of 2 processes, one without a database, up to 2 tasks and 2 runs, 1 restart, 1 fault | start and stop in order; cancellations reported; a staged result is stored by a good run only, and no result takes the place of a later one; `Execute` told; cron entries once |
| `cassandra` | 4 keys in 2 partitions, 2 callers, or 1 and a reader, 1 fault | nil means done, an error not done or a fault; a lasting row goes only by a DELETE that names it; pages exact |

Bounds.  Exclusion is a relation between two managers, and a third adds nothing to
the key, which remembers one owner; two faults are enough to leak the key (a failed
SETEX and its failed DEL) and to have a fault in each manager.  `Lease = 8` is the
least lease the time assumption admits for the other constants, so that every
deadline is met with nothing to spare; the proofs hold for all.  In `si_live` the
constraint `FaultsOrStall` keeps behaviours with a fault and behaviours with a stall
apart.  Three saves are one before, one at and one after a fault, three attempts a first,
a middle and a last one.  In `upsert_sound` three runs are a failed one, a repeated one
and one more beside the other caller.  Five tokens are two connectives in a row, and with
`Groups` parentheses on either side of a connective; a FilterFn and a column on every
place.  Three sort directives are a first, one that a tie reaches and one
that two ties reach; tables of three rows have ties across the edge of a page of one or two.
The filters that come with sorts are one in memory, one that SQL and memory share and one
that an OR keeps from the database; with every way three rows can match, a page is left
full, short and empty, at the front, in the middle and at the end.
In `lazy` two models are enough to be confused with each other: by place, by a shared
column of a key, by the whole key; the write gives every value that takes another branch
(nil, zero, another key, a deleted row).  In `tasks` each deployment is aimed at one
interplay (a comment in `MCTasks` says which); two runs are a run that was given up and
its retry, one fault is enough since a crash, a lost lock and an outage have
recovery paths of their own.  In `cassandra` pages of one and two rows over three meet
a full last page and a page that is cut, and a row removed ahead of, behind and at the
paging state.  `Few` keeps a second caller and a reader apart: they do not meet, except in
the table.

`tx_safe` takes the setups of `KeepTransaction` (`MCTransactionRetry`): all bodies on
PostgreSQL, bodies of plain `SaveTx` on MySQL, which is the condition `SafeSetups` of the
proofs.  The other bodies are what `tx_mysql` refutes.

Fairness.  `SingleInstance`: weak fairness of each manager's own steps (goroutines
are scheduled, calls are answered or time out), of `Tick`, and strong fairness of
`OnDone`, since Go's `select` picks at random among ready cases and a tick may be
ready each time.  `Boot`, `Stop`, `Crash` and `Stall` are not fair: `Failover` is
stated for behaviours in which some process stays up.  `TransactionRetry`: weak
fairness of the call's own steps.  The others are checked for safety only.

`SplitBrainHeals` needs distinct hosts: the value of the key is `os.Hostname()`, and
two processes of one host (instance `OneHost`) that both believe to hold the lock
renew it for ever.  It also needs a period longer than two calls; otherwise the two
managers may overwrite each other's key between read and renewal again and again,
hence `Period = 3` and `Lease = 9` there.

Deadlock is checked for the lock, `LazyLoading` and `CassandraRepository`.  The other
models stop where the program does: a call returns, a request is answered, processes
are down for good.

## 4. Disagreements between code and comments

1. `worker/service.go:625`: `release` deletes the key and drains the runner
   afterwards, so that two instances of a "single-instance runner" work at once.
2. `repositories/database_repository.go:368`: `SaveRetryTx` repeats a statement in a
   transaction MySQL has already rolled back.
3. `repositories/database_repository.go:548`: the seeds are "safe to run multiple
   times", but no unique index backs the upsert when two run at once.
4. `components/queryfilter/option.go:389`: a column in an OR with a FilterFn counts as
   true and as "already filtered", which it is not.

Seen, without a run, since no document promises otherwise or a property names the
exception:

- the lock: a crash or a lost answer between SETNX and SETEX leaves the key without an
  expiry for ever (`Failover` allows for it);
- `repositories/database_repository.go:126`: `First` asks the FilterFn about one row, and
  says that nothing matches when it refuses that one (`NothingLost` excuses it); a sort in
  memory comes after LIMIT and OFFSET (`SortedPages` excuses it); so does a FilterFn, and a
  client that takes a short page for the last one misses the rows behind it (`LastPage`
  does not);
- filters: an SQLExpr that returns an error drops its condition silently;
  `components/queryfilter/schema.go:16` says the first of Column, SQLExpr and FilterFn wins,
  and FilterFn does;
- `models/helper_lazy.go:751`: a batch that fails leaves every model of the page with an
  empty association, for good; `:974`: `Reload` keeps the association under a changed key
  (both named in `CacheIsAQuery`); `repositories/lazy_db_registry.go:77`: a scope with an
  operator that is not supported widens its result;
- tasks: a run that the drain has given up and that submits after `StopClient` meets a nil
  client, where `worker/internal/submitter.go:24` speaks of an error, as does the API of the mode
  `default` (`InOrder` names both); `worker/service.go:483`: a scheduler that loses its lock
  deletes the delayed tasks of all queues, whoever submitted them;
- Cassandra: a lost answer makes `UniqueCreate` say "not applied" for a row that is there;
  a type with an `EntityTTL` is never created uniquely; `USING TIMESTAMP = n` is no CQL, so
  that a type with a timestamp is never saved; a row that cannot be scanned, or a failed
  query, looks like the end of a page or of the partition (`PagesExact` excuses them); an entity
  whose struct lacks the clustering column deletes its partition without an error
  (`RowsRemain` names it);
- PostgreSQL: the second statement of a `SaveRetryTx` gets 25P02; a softly deleted row
  blocks a unique index for `Upsert`.

## 5. Proofs

Every theorem holds for all values of the constants that satisfy the assumptions of its
module; TLC evaluates these in the runs.  Each module proves an invariant inductive
(`Inductive`) and takes its properties from it.

`SingleInstanceProofs`, for any set of managers, hosts, times within `TimeAssumption`
and numbers of faults and stalls.  Exclusion is not inductive: it needs to know that a
manager which relies on its key owns it and that the key outlives the rest of its
program.  `LeaseInv` says so: for every point of the program at which the manager relies
on the key, `ttl + Elapsed >= Lease`, where `Elapsed` bounds the time since the last
SETEX by the ticker's phase and the delays since.  `ControlInv` ties `acquired`,
`running` and `cancelled` to `pc`, `DeadlineInv` says nobody is late.  `IndInv` is their
conjunction with `TypeOK`, `LeaseInv` and `DeadlineInv` as long as nobody has stalled.
From it: `LeaseIsExclusive`, `RunnersAreExclusive`, `RunnerFollows` (for all behaviours,
stalls too) and the action property `KeyIsNotTakenOver`.  `NothingLeaks` needs the types
only: a step that leaves the key without an expiry and without a manager at its SETEX is
a fault.  `ImplementsLock` shows each step of a manager to be orderly (it takes a lock
nobody holds, starts its runner under the lock, gives the lock back after the runner or
when it is cancelled) and an orderly step to be one of `RunnerLock`; a step of the clock
or a stall is a stutter, or ends the promise.

`TransactionRetryProofs`, for any number of saves, attempts and statements and any set
of setups that satisfies `SafeSetups` (type correctness needs no such premise). `IndInv`
adds to the types: an attempt that waits is not the last; inside a body the session
holds exactly the saves so far, or has been aborted by PostgreSQL; nothing is durable
before COMMIT and an error that is not fatal finds nothing durable. `Refines` shows
every step to be one of `AtomicCall` or a stutter.

`UpsertProofs`, for any callers, lists of keys, faults, runs and removals. `SafelyRerun`
(`NoDuplicates`) assumes `Guarded`: a unique index, or a single caller.  With an index
two rows of a key are the same row, deleted ones included (`Unique`); without one a
single caller may rely on what it has seen: nothing is there when it creates, and what
it saves is the only live row (`Unraced`).  `Control` adds that a row about to be saved
is of the key, and that a duplicate-key error has met a row.  That a look returns
something when a row is there, the lowest, is the well-foundedness of the natural
numbers (`Least`). `SeedComplete` and `SeedsInOrder` follow from `Seeded`: while nothing
is removed, the keys before the one a seeder is at are there.  `CreatedOnce` and
`RaceTolerated` are parts of the invariant.

`TasksProofs`, for any processes, deployments within `DaemonAssumption`, handlers and
requests within `RequestAssumption`, faults, tasks and runs.  `Phased` says how far a
process must be for its client, handlers, API and servers to be there, `Registered` that
entries are there once and that a process with both its manager and its entries holds
the lock; `Migrated` is the schema an API of mode `default` relies on.  From these:
`InOrder` and `CronOnce`. A run is `Honest` (what it staged or built is named by its own
try, and is what it wrote), `Housed` (its process is alive; if it is live, so is its
server; if it is cancelled, the process knows that it is shutting down) and `Belongs` to
a task whose tries count it; a task is `Counted` (a result
that was flushed is one of a good try, and no result is of a try that has not begun).
From these: `CancelReported` and `ExecuteTold`.  A run that is waited for is the only one
of its task and of its latest try (`LatestHeld`): whoever can still write has the highest
number, and with `Counted` that is `ResultOfGoodRun`.
`LocksExclusive` justifies the one-step locks: who believes to hold one is the owner of
its key (`Held`), so that no two processes do.  `UniqueInOneProcess` puts it to use: a run
of the queue `unique` that its server waits for has the lock in its process, or its process
drains (`UniqueHeld`).  A server has the lock when it takes a task, loses it together with
its runs, and gives it back when it begins to drain; tasks keep the options they were
submitted with (`OptionsStay`).  The exception is real: `release` gives the key back before
the server is down, which is what `si_overlap` shows.  A run that was given up is no longer
waited for, and may go on beside its retry.

`LazyLoadingProofs`, for any number of models, any association, queriers, history of the
database and faults.  `ItsOwnRow` is not inductive: `Faithful` adds that a model is a
row, a state it was read from and a cache, and that this state is in the log, which
`Write` only extends.  A cache is `Answered`: it is what the association of its key is
in a state of the log (`Right`), or empty after a failed query, and its key is the
model's unless `Reload` has overwritten the columns.  That a batch gives each model its
own rows rests on lemmas about keys: an IN query column by column with the comparison of
composite keys after it finds the rows of one query per key (`SelectIsAssociation`,
`GroupIsSelect`), and a primary key has one owner (`OneOwner`).  `Reloaded` says of the
last call what `ReloadTold` does. From these: `RowsStayApart`, `CachesAreQueries`,
`EagerIsEnough` and `ReloadIsHonest`.

`CassandraRepositoryProofs`, for any set of keys, callers, readers, calls, page sizes
and any number of faults.  `Progress` says that before its statement a call has done
nothing and told nobody, and that between the statement and the post hook it has done
its work.  From it: `CallersAreTold`, and with `DeletesItsPartition` (what a DELETE names,
for any set of columns in its condition) the action property `RowsAreKept`.  Pages are about `ReadersInv`: a reader that
has not met an error has got every stable row of its partition up to its paging state,
none beyond it, and none twice.  It is preserved since a page is a prefix of what is
left (`PageIsAPrefix`, for which the first `n` of a set of keys are cut off by the least
row that is left out), a short page is the last (`ShortPage`), and the options leave the
query with the paging state and the size of its page, in whatever order they are
operated (`OptionsBegin`).  From it: `PagesComplete` (`PagesExact`).

`QueryFilterProofs`, for any schema and filters of any length.  `FilterParsed` says that
`ParseFilter` accepts a word if and only if the grammar derives it, and that the value of
its tree is the meaning of the word.  The library's theorems on induction take an
operator, which the provers cannot instantiate; here a statement is the set of elements
it is true of, and a set that has every element whose smaller elements it has is all
(`Induction`, along a measure, from the well-foundedness of the natural numbers).
`Recursion` says in the same way that a definition which descends along a measure has a
solution, which is how `Parser`, `Derives`, `Means` and the functions on trees come to
satisfy their equations (`ParserIs`, `DerivesIs`, `MeansIs`, `LeavesIs`, ...).  The measure
of a call of the parser is its position first, then whether it is `parseOr` or `parseAnd`,
then the round; that of a span its length, then its symbol.  `ParserSound`: what a loop has
in `left` after any number of rounds is derived by the grammar from the tokens between,
and its tree holds only for rows that these tokens mean.  `ParserComplete` is the converse:
a span the grammar derives is where a round of the loop of its symbol ends, with a tree that
holds for every row the span means, unless it is an E before a semicolon, whose last T
goes on.  The whole word is before the end, so the call ends there.

From it: a filter that is refused is wrong (`RefusedIsWrong`).  A row for which the tree
holds passes both halves (`HoldsPasses`, so `MatchesPass`); when the tree is `Separable` a
row that passes both is one for which it holds (`PassesHolds`, so `PassesMatch`).

`QueryRequestProofs`, for any tables, filters, limits and directives.  `PlacesCompare`
relates the two orders of the module: a row has a lesser place than another only if, at the
first directive in force that tells them apart, it comes before it; this is an induction over
the directives, each of which weighs more than all that follow.  So `Answers` and
`SliceStable` are ascending in `Place`.  `Thinned` says that a sequence is what the predicate
leaves of a piece of another: it is what the loop of `buildInMemoryFn` computes (`KeptIs`),
pieces that follow each other may be joined (`ThinnedJoin`), and it keeps order and adds no
duplicate (`ThinnedOrder`).  Pages are drawn one at a time, each from an enumeration of its
own of the selected rows, and need not fit together.  `RequestInv` says that they do when
they must: every page is what is left of its piece, up to where the next one begins, whatever
the FilterFn has taken; and when the directives separate the rows there is only one order
(`OneOrder`: two ascending permutations of a finite set differ at a first place, where neither
may have its row), so that the pages together are what is left of the front of it.  `TreesMean`,
`NoneLost`, `NoneExtra` and `SortsSound` (`SortedPages`) follow.  That the results exist is a
theorem of its own (`SortsAnswered`): the comparison of rows is a strict weak order
(`CompareAsymmetric`, `CompareBetween`), and a finite set has an enumeration that agrees with
such an order (`Arrangement`: take away one that comes before no other, until none is left).

Only model-checked:

- liveness (`StopReturns`, `Failover`, `SplitBrainHeals`, `Returns`): out of the prover's reach;
- that a step of a model can be taken at all (ENABLED): TLC checks for deadlock where
  the program does not stop.

## 6. Left to do

1. The refinement of `RunnerLock` by the locks of `Daemons` in full: `Acquire` is two of its steps
   in one, so that a refinement needs a stuttering variable; `LocksExclusive` is its exclusion.
2. The duplicate branch of `UpsertTx` inside a caller's transaction.

## 7. Not modelled

- Migrations: golang-migrate does the work; the daemon that calls it is in `Daemons`.
- Configuration: a singleton, read before any daemon starts; `Reload` is called once, then.
- Dialect: the error classes are inputs of `TransactionRetry` and `Upsert`; the rest is SQL
  text.
- Connectors and external clients: I/O behind `sync.Once`; the health checks are in
  `Daemons`.
- HTTP handlers and services: one request at a time, no state of their own.
- Model helpers, crypto, helpers: interfaces and stateless conversions.
