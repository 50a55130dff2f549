--------------------------- MODULE SingleInstance ---------------------------
(***************************************************************************)
(* The distributed lock of app/worker/service.go: one                      *)
(* _SingleInstanceManager per process competes for a Redis key and keeps   *)
(* its runner (an asynq server or the scheduler) up while it owns the key. *)
(*                                                                         *)
(* One step is one Redis call or one call of the runner.  A call takes     *)
(* effect at one instant, then it is answered, or its answer is lost.      *)
(* Time is explicit: Tick is one unit of it, and it may not pass over the  *)
(* deadline of a manager that is not stalled.                              *)
(***************************************************************************)
EXTENDS Integers

CONSTANTS
    Mgr,        \* the managers of one lock key, one per process
    HostOf,     \* HostOf[m]: what os.Hostname() returns to m; the lock's value
    NoHost,     \* value of the key while it does not exist
    Lease,      \* seconds in SetExpire (15 in the code)
    Period,     \* period of the ticker (5 in the code)
    Delay,      \* longest time of a Redis call, of Start, or a tick's lateness
    Drain,      \* longest time of runner.Shutdown()
    Faults,     \* the kinds of fault that may happen
    MaxFaults,  \* bound on the faults of a behaviour
    MaxStalls   \* bound on the stalls (missed deadlines) of a behaviour

FaultKinds == {"refused", "lost", "start", "crash"}

ASSUME HostAssumption == \A m \in Mgr : HostOf[m] # NoHost

ASSUME TimeAssumption ==
    /\ {Lease, Period, Delay, Drain} \subseteq Nat \ {0}
    /\ Period + 4 * Delay + Drain < Lease

ASSUME FaultAssumption ==
    Faults \subseteq FaultKinds /\ MaxFaults \in Nat /\ MaxStalls \in Nat

VARIABLES
    pc,         \* what each manager is about to do
    acquired,   \* m.acquired
    cancelled,  \* m.ctx is cancelled: Stop() was called
    running,    \* m.runner is working
    wait,       \* time the manager's next step has been due
    phase,      \* time until the ticker fires again, 0 before it exists
    due,        \* a tick is buffered in ticker.C
    late,       \* managers stalled past their deadline (GC, suspended VM)
    owner,      \* value of the lock key in Redis
    ttl,        \* its time to live
    faults, stalls

mgrVars == <<pc, acquired, cancelled, running, wait, phase, due, late>>
lockVars == <<owner, ttl>>
vars == <<mgrVars, lockVars, faults, stalls>>

Forever == Lease + 1       \* SETNX sets no expiry
Hosts == {HostOf[m] : m \in Mgr}

Parked == {"down", "stopped"}
Acquiring == {"setnx", "setex", "undo", "start", "unstart"}
Keeping == {"get", "renew", "drop"}
Releasing == {"rel_get", "rel_del", "rel_drain"}
PC == Parked \cup Acquiring \cup Keeping \cup Releasing \cup {"idle"}

\* The types; the lease is never longer than what SetExpire sets.
TypeOK ==
    /\ pc \in [Mgr -> PC]
    /\ acquired \in [Mgr -> BOOLEAN]
    /\ cancelled \in [Mgr -> BOOLEAN]
    /\ running \in [Mgr -> BOOLEAN]
    /\ wait \in [Mgr -> Nat]
    /\ phase \in [Mgr -> 0 .. Period]
    /\ due \in [Mgr -> BOOLEAN]
    /\ late \in SUBSET Mgr
    /\ owner \in Hosts \cup {NoHost}
    /\ ttl \in 0 .. Forever
    /\ faults \in 0 .. MaxFaults
    /\ stalls \in 0 .. MaxStalls

Init ==
    /\ pc = [m \in Mgr |-> "down"]
    /\ acquired = [m \in Mgr |-> FALSE]
    /\ cancelled = [m \in Mgr |-> FALSE]
    /\ running = [m \in Mgr |-> FALSE]
    /\ wait = [m \in Mgr |-> 0]
    /\ phase = [m \in Mgr |-> 0]
    /\ due = [m \in Mgr |-> FALSE]
    /\ late = {}
    /\ owner = NoHost /\ ttl = 0
    /\ faults = 0 /\ stalls = 0

-----------------------------------------------------------------------------
(* Helpers: control of one manager, outcome of a fallible call, the key.   *)

At(m, p) == pc[m] = p

Set(f, m, v) == [f EXCEPT ![m] = v]

Move(m, p) ==
    /\ pc' = Set(pc, m, p)
    /\ wait' = Set(wait, m, 0)
    /\ late' = late \ {m}

\* A step inside a handler, or to its end: manage makes the ticker after the
\* first tryAcquire, when it enters its loop.
Goto(m, p) ==
    /\ Move(m, p)
    /\ phase' = Set(phase, m,
                    IF p = "idle" /\ phase[m] = 0 THEN Period ELSE phase[m])
    /\ due' = due

\* A step with which the process, the ticker or its buffered tick goes.
Reset(m, p, ph) ==
    /\ Move(m, p)
    /\ phase' = Set(phase, m, ph)
    /\ due' = Set(due, m, FALSE)

\* A Redis call is answered ("ok"), fails before it takes effect ("refused"),
\* or takes effect and its answer is lost ("lost"): an error for the caller.
Outcomes(kinds) ==
    {"ok"} \cup (IF faults < MaxFaults THEN Faults \cap kinds ELSE {})

RedisOutcomes == Outcomes({"refused", "lost"})

Charge(o) == faults' = IF o = "ok" THEN faults ELSE faults + 1

SetKey(h, t) == owner' = h /\ ttl' = t

DeleteKey(o) ==
    IF o = "refused" THEN UNCHANGED lockVars ELSE SetKey(NoHost, 0)

-----------------------------------------------------------------------------
(* tryAcquire                                                              *)

\* Faulty variant: SET instead of SETNX.
SetAlways(m) ==
    /\ At(m, "setnx")
    /\ SetKey(HostOf[m], Forever)
    /\ Goto(m, "setex")
    /\ UNCHANGED <<acquired, cancelled, running, faults, stalls>>

\* Faulty variant: after a SETNX that finds the key taken, the key is deleted.
SetNXUndoes(m) ==
    /\ At(m, "setnx")
    /\ IF owner = NoHost THEN SetKey(HostOf[m], Forever) ELSE UNCHANGED lockVars
    /\ Goto(m, IF owner = NoHost THEN "setex" ELSE "undo")
    /\ UNCHANGED <<acquired, cancelled, running, faults, stalls>>

SetNX(m) ==
    /\ At(m, "setnx")
    /\ \E o \in RedisOutcomes :
        /\ Charge(o)
        /\ IF o # "refused" /\ owner = NoHost
           THEN SetKey(HostOf[m], Forever)
           ELSE UNCHANGED lockVars
        /\ Goto(m, IF o = "ok" /\ owner = NoHost THEN "setex" ELSE "idle")
    /\ UNCHANGED <<acquired, cancelled, running, stalls>>

\* Faulty variant: the value is set again, the expiry is not.
SetNoExpiry(m) ==
    /\ At(m, "setex")
    /\ SetKey(HostOf[m], Forever)
    /\ Goto(m, "start")
    /\ acquired' = Set(acquired, m, TRUE)
    /\ UNCHANGED <<cancelled, running, faults, stalls>>

\* SETEX sets value and expiry whoever owns the key.
SetExpire(m) ==
    /\ At(m, "setex")
    /\ \E o \in RedisOutcomes :
        /\ Charge(o)
        /\ IF o = "refused" THEN UNCHANGED lockVars
           ELSE SetKey(HostOf[m], Lease)
        /\ Goto(m, IF o = "ok" THEN "start" ELSE "undo")
        /\ acquired' = Set(acquired, m, o = "ok")
    /\ UNCHANGED <<cancelled, running, stalls>>

\* The two error paths delete the key and ignore the answer.
Undo(m) ==
    /\ At(m, "undo") \/ At(m, "unstart")
    /\ \E o \in RedisOutcomes : Charge(o) /\ DeleteKey(o)
    /\ Goto(m, "idle")
    /\ UNCHANGED <<acquired, cancelled, running, stalls>>

\* Faulty variant: a failed Start leaves acquired set.
StartKeepsAcquired(m) ==
    /\ At(m, "start")
    /\ \E o \in Outcomes({"start"}) :
        /\ Charge(o)
        /\ Goto(m, IF o = "ok" THEN "idle" ELSE "unstart")
        /\ running' = Set(running, m, o = "ok")
    /\ UNCHANGED <<acquired, cancelled, lockVars, stalls>>

StartRunner(m) ==
    /\ At(m, "start")
    /\ \E o \in Outcomes({"start"}) :
        /\ Charge(o)
        /\ Goto(m, IF o = "ok" THEN "idle" ELSE "unstart")
        /\ running' = Set(running, m, o = "ok")
        /\ acquired' = Set(acquired, m, o = "ok")
    /\ UNCHANGED <<cancelled, lockVars, stalls>>

-----------------------------------------------------------------------------
(* manage: the select loop                                                 *)

\* Faulty variant: a manager without the lock does not try again.
OnTickNoRetry(m) ==
    /\ At(m, "idle") /\ due[m]
    /\ Reset(m, IF acquired[m] THEN "get" ELSE "idle", phase[m])
    /\ UNCHANGED <<acquired, cancelled, running, lockVars, faults, stalls>>

OnTick(m) ==
    /\ At(m, "idle") /\ due[m]
    /\ Reset(m, IF acquired[m] THEN "get" ELSE "setnx", phase[m])
    /\ UNCHANGED <<acquired, cancelled, running, lockVars, faults, stalls>>

\* Faulty variant: the loop ends only when the lock is held.
OnDoneIfAcquired(m) ==
    /\ At(m, "idle") /\ cancelled[m] /\ acquired[m]
    /\ Reset(m, "rel_get", 0)
    /\ UNCHANGED <<acquired, cancelled, running, lockVars, faults, stalls>>

\* ctx.Done(), which the select may take or leave when a tick is buffered too:
\* manage returns and closes done; Stop goes on with release(), which returns
\* at once when the lock is not held.
OnDone(m) ==
    /\ At(m, "idle") /\ cancelled[m]
    /\ Reset(m, IF acquired[m] THEN "rel_get" ELSE "stopped", 0)
    /\ UNCHANGED <<acquired, cancelled, running, lockVars, faults, stalls>>

-----------------------------------------------------------------------------
(* keepAlive                                                               *)

\* Faulty variant: the value of the key is not compared.
GetAnyOwner(m) ==
    /\ At(m, "get")
    /\ \E o \in RedisOutcomes :
        /\ Charge(o)
        /\ Goto(m, IF o = "ok" THEN "renew" ELSE "drop")
        /\ acquired' = Set(acquired, m, o = "ok")
    /\ UNCHANGED <<cancelled, running, lockVars, stalls>>

Get(m) ==
    /\ At(m, "get")
    /\ \E o \in RedisOutcomes :
        LET mine == o = "ok" /\ owner = HostOf[m] IN
        /\ Charge(o)
        /\ Goto(m, IF mine THEN "renew" ELSE "drop")
        /\ acquired' = Set(acquired, m, mine)
    /\ UNCHANGED <<cancelled, running, lockVars, stalls>>

\* Faulty variant: a wrong expiry.
RenewTooLong(m) ==
    /\ At(m, "renew")
    /\ SetKey(HostOf[m], 2 * Lease)
    /\ Goto(m, "idle")
    /\ UNCHANGED <<acquired, cancelled, running, faults, stalls>>

\* Faulty variant: an error deletes the key before the runner is shut down.
RenewThenDelete(m) ==
    /\ At(m, "renew")
    /\ \E o \in RedisOutcomes :
        /\ Charge(o)
        /\ SetKey(IF o = "ok" THEN HostOf[m] ELSE NoHost, IF o = "ok" THEN Lease ELSE 0)
        /\ Goto(m, IF o = "ok" THEN "idle" ELSE "drop")
        /\ acquired' = Set(acquired, m, o = "ok")
    /\ UNCHANGED <<cancelled, running, stalls>>

Renew(m) ==
    /\ At(m, "renew")
    /\ \E o \in RedisOutcomes :
        /\ Charge(o)
        /\ IF o = "refused" THEN UNCHANGED lockVars
           ELSE SetKey(HostOf[m], Lease)
        /\ Goto(m, IF o = "ok" THEN "idle" ELSE "drop")
        /\ acquired' = Set(acquired, m, o = "ok")
    /\ UNCHANGED <<cancelled, running, stalls>>

\* Faulty variant: the runner is not shut down.
DroppedStillRunning(m) ==
    /\ At(m, "drop")
    /\ Goto(m, "idle")
    /\ UNCHANGED <<acquired, cancelled, running, lockVars, faults, stalls>>

\* runner.Shutdown() returns.
Dropped(m) ==
    /\ At(m, "drop")
    /\ Goto(m, "idle")
    /\ running' = Set(running, m, FALSE)
    /\ UNCHANGED <<acquired, cancelled, lockVars, faults, stalls>>

-----------------------------------------------------------------------------
(* release, called by Stop                                                 *)

ReleaseGet(m) ==
    /\ At(m, "rel_get")
    /\ \E o \in RedisOutcomes :
        LET mine == o = "ok" /\ owner = HostOf[m] IN
        /\ Charge(o)
        /\ Goto(m, IF mine THEN "rel_del" ELSE "rel_drain")
        /\ acquired' = Set(acquired, m, mine)
    /\ UNCHANGED <<cancelled, running, lockVars, stalls>>

ReleaseDelete(m) ==
    /\ At(m, "rel_del")
    /\ \E o \in RedisOutcomes : Charge(o) /\ DeleteKey(o)
    /\ Goto(m, "rel_drain")
    /\ acquired' = Set(acquired, m, FALSE)
    /\ UNCHANGED <<cancelled, running, stalls>>

\* runner.Shutdown() returns, and with it Stop().
Released(m) ==
    /\ At(m, "rel_drain")
    /\ Goto(m, "stopped")
    /\ running' = Set(running, m, FALSE)
    /\ UNCHANGED <<acquired, cancelled, lockVars, faults, stalls>>

-----------------------------------------------------------------------------
(* The process around the manager, and time                                *)

\* A new process: _NewSingleInstanceManager, then Start().
Boot(m) ==
    /\ pc[m] \in Parked
    /\ Reset(m, "setnx", 0)
    /\ acquired' = Set(acquired, m, FALSE)
    /\ cancelled' = Set(cancelled, m, FALSE)
    /\ running' = Set(running, m, FALSE)
    /\ UNCHANGED <<lockVars, faults, stalls>>

\* Stop() cancels the context, whatever manage is doing.
Stop(m) ==
    /\ pc[m] \notin Parked \cup Releasing /\ ~cancelled[m]
    /\ cancelled' = Set(cancelled, m, TRUE)
    /\ UNCHANGED <<pc, acquired, running, wait, phase, due, late>>
    /\ UNCHANGED <<lockVars, faults, stalls>>

Crash(m) ==
    /\ pc[m] \notin Parked
    /\ "crash" \in Faults /\ faults < MaxFaults
    /\ faults' = faults + 1
    /\ Reset(m, "down", 0)
    /\ acquired' = Set(acquired, m, FALSE)
    /\ running' = Set(running, m, FALSE)
    /\ UNCHANGED <<cancelled, lockVars, stalls>>

Stall(m) ==
    /\ pc[m] \notin Parked /\ m \notin late
    /\ stalls < MaxStalls
    /\ stalls' = stalls + 1
    /\ late' = late \cup {m}
    /\ UNCHANGED <<pc, acquired, cancelled, running, wait, phase, due>>
    /\ UNCHANGED <<lockVars, faults>>

\* How long a manager stays at a point of its program at most, once it can go on.
Limit(p) == IF p \in {"drop", "rel_drain"} THEN Drain ELSE Delay

Ready(m) == pc[m] \notin Parked /\ (At(m, "idle") => due[m] \/ cancelled[m])

Timed(m) == Ready(m) /\ m \notin late

\* The ticker fires at a fixed rate and drops a tick that finds one buffered.
Fires(m) == phase[m] = 1

Tick ==
    /\ \A m \in Mgr : Timed(m) => wait[m] < Limit(pc[m])
    /\ wait' = [m \in Mgr |-> IF Timed(m) THEN wait[m] + 1 ELSE wait[m]]
    /\ phase' = [m \in Mgr |-> IF Fires(m) THEN Period
                               ELSE IF phase[m] = 0 THEN 0 ELSE phase[m] - 1]
    /\ due' = [m \in Mgr |-> due[m] \/ Fires(m)]
    /\ IF ttl \in {0, Forever} THEN UNCHANGED lockVars
       ELSE SetKey(IF ttl = 1 THEN NoHost ELSE owner, ttl - 1)
    /\ UNCHANGED <<pc, acquired, cancelled, running, late, faults, stalls>>

\* The steps of a manager's own goroutines.
Step(m) ==
    \/ SetNX(m) \/ SetExpire(m) \/ Undo(m) \/ StartRunner(m)
    \/ OnTick(m) \/ OnDone(m)
    \/ Get(m) \/ Renew(m) \/ Dropped(m)
    \/ ReleaseGet(m) \/ ReleaseDelete(m) \/ Released(m)

Next ==
    \/ \E m \in Mgr : Step(m) \/ Boot(m) \/ Stop(m) \/ Crash(m) \/ Stall(m)
    \/ Tick

Spec == Init /\ [][Next]_vars

\* Goroutines run and Redis calls return, time passes, and a select whose
\* ctx.Done() case is ready again and again takes it (Go picks at random).
Fairness ==
    /\ \A m \in Mgr : WF_vars(Step(m)) /\ SF_vars(OnDone(m))
    /\ WF_vars(Tick)

FairSpec == Spec /\ Fairness

(***************************************************************************)
(* Correctness                                                             *)
(***************************************************************************)

\* The time that may have passed since the last SetExpire, at most.
Elapsed(m) ==
    CASE At(m, "idle") ->
            Delay + (IF due[m] THEN Period + wait[m] ELSE Period - phase[m])
      [] At(m, "unstart") -> Delay + wait[m]
      [] pc[m] \in {"get", "rel_get"} -> Period + 2 * Delay + wait[m]
      [] pc[m] \in {"renew", "rel_del"} -> Period + 3 * Delay + wait[m]
      [] At(m, "drop") -> Period + 4 * Delay + wait[m]
      [] OTHER -> wait[m]

\* The points of the program where the key is this manager's.
Leased(m) ==
    \/ pc[m] \in {"setex", "undo", "start", "unstart", "drop"}
    \/ acquired[m] /\ pc[m] \in {"idle", "get", "renew", "rel_get", "rel_del"}

Serving == {"get", "renew", "drop", "rel_get", "rel_del", "rel_drain"}

\* acquired and the runner follow the program counter.
ControlInv ==
    \A m \in Mgr :
        /\ acquired[m] => pc[m] \in {"start", "idle", "get", "renew", "rel_get", "rel_del"}
        /\ pc[m] \in {"start", "get", "renew", "rel_get", "rel_del"} => acquired[m]
        /\ running[m] <=> pc[m] \in Serving \/ (At(m, "idle") /\ acquired[m])
        /\ At(m, "idle") => phase[m] > 0
        /\ pc[m] \in Releasing => cancelled[m]

\* Nobody who has not stalled is behind a deadline.
DeadlineInv == late = {} /\ \A m \in Mgr : wait[m] <= Limit(pc[m])

\* Who relies on the key owns it, alone, and it lives long enough.
LeaseInv ==
    /\ \A m \in Mgr : Leased(m) => owner = HostOf[m] /\ ttl + Elapsed(m) >= Lease
    /\ \A m \in Mgr : At(m, "setex") => ttl = Forever
    /\ \A m, n \in Mgr : Leased(m) /\ Leased(n) => m = n

\* The inductive invariant: as long as nobody has stalled, the key of a
\* manager that relies on it is there and has enough time left for the rest
\* of the manager's program, up to the next SetExpire or the end of Shutdown.
IndInv ==
    /\ TypeOK
    /\ ControlInv
    /\ stalls = 0 => DeadlineInv /\ LeaseInv

\* While no process has stalled, no two managers believe to hold the lock:
\* what the key and its 15 s expiry are for (tryAcquire, keepAlive, release).
LeaseExclusive ==
    stalls = 0 => \A m, n \in Mgr : acquired[m] /\ acquired[n] => m = n

\* While no process has stalled, two runners work at the same time only when
\* one of them is being shut down by release(), which has deleted the key
\* before: keepAlive's own shutdown ends before the lease does.
RunnerExclusive ==
    stalls = 0 =>
        \A m, n \in Mgr : running[m] /\ running[n] /\ m # n =>
            At(m, "rel_drain") \/ At(n, "rel_drain")

\* What "manages a distributed lock for a single-instance runner" promises
\* (app/worker/service.go:507).  release() breaks it.
SingleInstanceRunner ==
    stalls = 0 => \A m, n \in Mgr : running[m] /\ running[n] => m = n

\* Between handlers the runner works exactly when the lock is held, whichever
\* of the calls failed, and no runner survives Stop() or the process.
RunnerFollowsLock ==
    \A m \in Mgr :
        /\ At(m, "idle") => running[m] = acquired[m]
        /\ pc[m] \in Parked => ~running[m]

\* While no process has stalled, the key of a host goes in two ways only: its
\* own manager deletes it (the error paths of tryAcquire, release), or it runs
\* out when nobody holds the lock any more.  No keepAlive overwrites, and no
\* error path deletes, a key that is somebody else's (service.go:580, 606, 623).
NoTakeover ==
    [][stalls' = 0 /\ owner # NoHost /\ owner' # owner =>
        /\ owner' = NoHost
        /\ \/ \E m \in Mgr : /\ owner = HostOf[m] /\ pc'[m] # pc[m]
                           /\ pc[m] \in {"undo", "unstart", "rel_del"}
           \/ ttl = 1 /\ \A m \in Mgr : pc'[m] = pc[m] /\ ~acquired[m]]_vars

\* The lock keeps the promise of RunnerLock, with the managers that rely on the key
\* as its holders: nobody takes it while another's runner works, but for one that Stop()
\* has been called for and release() has let go of (service.go:615).
Lock == INSTANCE RunnerLock WITH
            holder <- {m \in Mgr : Leased(m)},
            working <- {m \in Mgr : running[m]},
            leaving <- {m \in Mgr : cancelled[m]},
            overslept <- stalls > 0
LockSpec == Lock!Spec

\* A key is left without an expiry only by a fault between SETNX and SETEX.
NoLeakWithoutFault ==
    faults = 0 /\ ttl = Forever => \E m \in Mgr : At(m, "setex")

Live(m) == pc[m] \notin Parked /\ ~cancelled[m]

\* Stop() returns: manage leaves its loop whatever it was doing.
StopReturns == \A m \in Mgr : cancelled[m] ~> pc[m] \in Parked

\* As long as some process stays up, some runner works again and again after
\* any crash, restart or failed call -- unless the key was left in Redis
\* without an expiry (SETNX and SETEX are two calls), which nobody repairs.
Failover ==
    (\E m \in Mgr : <>[]Live(m)) =>
        \/ []<>(\E n \in Mgr : At(n, "idle") /\ running[n])
        \/ <>[](ttl = Forever)

\* Two managers that both believe to hold the lock, after one of them slept
\* through its lease, do not go on like that: keepAlive compares the value.
SplitBrainHeals ==
    \A m, n \in Mgr :
        m # n /\ acquired[m] /\ acquired[n] ~> ~(acquired[m] /\ acquired[n])

=============================================================================
