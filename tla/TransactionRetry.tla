-------------------------- MODULE TransactionRetry --------------------------
(***************************************************************************)
(* WithTransactionRetryContext of repositories/database_repository.go: a   *)
(* body of N saves runs in a transaction that is begun again after a       *)
(* retryable error.  A save is a SaveTx, or a SaveRetryTx that repeats the *)
(* statement by itself.  The database session decides what each statement  *)
(* does; its rules differ between MySQL and PostgreSQL.                    *)
(***************************************************************************)
EXTENDS Integers

CONSTANTS
    N,          \* number of saves in the body
    SaveTries,  \* statements of one SaveRetryTx at most (6 in the code)
    Setups      \* the calls considered: adapter, maxRetries, retrying saves

Write == 1 .. N

SetupType ==
    [adapter : {"mysql", "postgres"}, maxRetries : Int, retrying : SUBSET Write]

ASSUME CallAssumption ==
    /\ N \in Nat \ {0}
    /\ SaveTries \in Nat \ {0}
    /\ Setups \subseteq SetupType

VARIABLES
    setup,      \* parameters of this call
    pc,         \* what the call is about to do
    number,     \* attemptNumber
    step,       \* next save of the body
    tries,      \* statements this SaveRetryTx has failed with
    err,        \* class of the error of the attempt
    cancelled,  \* ctx is done
    late,       \* begin() calls made after that
    held,       \* the caller's *sql.Tx is neither committed nor rolled back
    session,    \* the transaction of its connection in the database
    pending,    \* saves in that transaction
    durable,    \* durable[w]: how often save w has taken effect
    result      \* what the call returned

callVars == <<pc, number, step, tries, err, result>>
ctxVars == <<setup, cancelled, late>>
dbVars == <<held, session, pending, durable>>
vars == <<callVars, ctxVars, dbVars>>

Ended == {"done", "crashed"}
Inside == {"body", "rollback", "abandon", "commit"}
Outside == {"check", "begin", "retry", "wait"}

Classes == {"retryable", "fatal", "panic"}

\* maxRetries <= 0 means one attempt.
Attempts == IF setup.maxRetries <= 0 THEN 1 ELSE setup.maxRetries

\* The types; attempts and statements stay within maxRetries and SaveTries.
TypeOK ==
    /\ setup \in Setups
    /\ pc \in Ended \cup Inside \cup Outside
    /\ number \in 1 .. Attempts
    /\ step \in 1 .. N + 1
    /\ tries \in 0 .. SaveTries - 1
    /\ err \in Classes \cup {"none"}
    /\ cancelled \in BOOLEAN
    /\ late \in Nat
    /\ held \in BOOLEAN
    /\ session \in {"idle", "open", "aborted"}
    /\ pending \subseteq Write
    /\ durable \in [Write -> Nat]
    /\ result \in Classes \cup {"none", "ok", "cancelled"}

Init ==
    /\ setup \in Setups
    /\ pc = "check" /\ number = 1 /\ step = 1 /\ tries = 0
    /\ err = "none" /\ result = "none"
    /\ cancelled \in BOOLEAN /\ late = 0
    /\ held = FALSE /\ session = "idle" /\ pending = {}
    /\ durable = [w \in Write |-> 0]

-----------------------------------------------------------------------------
(* The database session                                                    *)

\* Outcomes of one save: "deadlock" stands for the errors that end the
\* transaction (1213; 40001 and 40P01), "lockwait" for 1205, which ends only
\* the statement; "prehook" and "posthook" are errors of PreSave and PostSave.
Outcomes ==
    {"fatal", "prehook", "panic"}
        \cup (IF session = "aborted" THEN {} ELSE {"ok", "deadlock", "posthook"})
        \cup (IF setup.adapter = "mysql" THEN {"lockwait"} ELSE {})

ClassOf(o) ==
    CASE o \in {"deadlock", "lockwait"} -> "retryable"
      [] o = "panic" -> "panic"
      [] OTHER -> "fatal"

\* Outside a transaction every statement commits by itself.
Put(w) ==
    /\ IF session = "open"
       THEN pending' = pending \cup {w} /\ UNCHANGED durable
       ELSE durable' = [durable EXCEPT ![w] = @ + 1] /\ UNCHANGED pending
    /\ UNCHANGED session

\* MySQL rolls the whole transaction back on a deadlock and goes on without
\* one; PostgreSQL refuses every statement until ROLLBACK, after any error.
Abort(s) == session' = s /\ pending' = {} /\ UNCHANGED durable

Execute(w, o) ==
    CASE o \in {"ok", "posthook"} -> Put(w)
      [] setup.adapter = "postgres" /\ o \in {"deadlock", "fatal"} -> Abort("aborted")
      [] setup.adapter = "mysql" /\ o = "deadlock" -> Abort("idle")
      [] OTHER -> UNCHANGED <<session, pending, durable>>

\* The transaction is over for the database and for database/sql.
Release == held' = FALSE /\ session' = "idle" /\ pending' = {}

-----------------------------------------------------------------------------
(* The retry loop                                                          *)

Return(r) == pc' = "done" /\ result' = r

CheckContext ==
    /\ pc = "check"
    /\ IF cancelled THEN Return("cancelled") ELSE pc' = "begin" /\ UNCHANGED result
    /\ UNCHANGED <<number, step, tries, err, ctxVars, dbVars>>

Begin ==
    /\ pc = "begin"
    /\ late' = IF cancelled THEN late + 1 ELSE late
    /\ \/ /\ pc' = "body" /\ step' = 1 /\ tries' = 0
          /\ held' = TRUE /\ session' = "open"
          /\ UNCHANGED err
       \/ /\ pc' = "retry" /\ err' \in {"retryable", "fatal"}
          /\ UNCHANGED <<step, tries, held, session>>
    /\ UNCHANGED <<setup, cancelled, number, result, pending, durable>>

\* Does SaveRetryTx repeat the statement?
Again(o) ==
    /\ step \in setup.retrying
    /\ ClassOf(o) = "retryable"
    /\ tries + 1 < SaveTries

\* One statement of a SaveTx, or of a SaveRetryTx between two sleeps.
Save ==
    /\ pc = "body" /\ step <= N
    /\ \E o \in Outcomes :
        /\ Execute(step, o)
        /\ \/ /\ o = "ok"
              /\ step' = step + 1 /\ tries' = 0
              /\ UNCHANGED <<pc, err>>
           \/ /\ o # "ok" /\ Again(o)
              /\ tries' = tries + 1
              /\ UNCHANGED <<pc, step, err>>
           \/ /\ o # "ok" /\ ~Again(o)
              /\ pc' = "rollback" /\ err' = ClassOf(o)
              /\ UNCHANGED <<step, tries>>
    /\ UNCHANGED <<number, result, held, ctxVars>>

\* Faulty variant: the context is not looked at before the commit.
FinishAlwaysCommits ==
    /\ pc = "body" /\ step = N + 1
    /\ pc' = "commit"
    /\ UNCHANGED <<number, step, tries, err, result, ctxVars, dbVars>>

\* The body has returned nil: commit, unless the context is done.
Finish ==
    /\ pc = "body" /\ step = N + 1
    /\ pc' = IF cancelled THEN "abandon" ELSE "commit"
    /\ UNCHANGED <<number, step, tries, err, result, ctxVars, dbVars>>

\* An error of the rollback is only logged: database/sql gives the connection
\* back, or closes it and with it the transaction.
Rollback ==
    /\ pc = "rollback"
    /\ Release
    /\ pc' = "retry"
    /\ UNCHANGED <<durable, number, step, tries, err, result, ctxVars>>

\* Faulty variant: a cancelled call returns without its rollback.
AbandonSkipped ==
    /\ pc = "abandon"
    /\ Return("cancelled")
    /\ UNCHANGED <<number, step, tries, err, ctxVars, dbVars>>

Abandon ==
    /\ pc = "abandon"
    /\ Release
    /\ Return("cancelled")
    /\ UNCHANGED <<durable, number, step, tries, err, ctxVars>>

Land == durable' = [w \in Write |-> IF w \in pending THEN durable[w] + 1 ELSE durable[w]]

\* A COMMIT that fails ends the transaction too; the rollback that follows
\* finds it closed.  A broken connection may hide that it succeeded.
Commit ==
    /\ pc = "commit"
    /\ Release
    /\ \/ Land /\ Return("ok") /\ UNCHANGED err
       \/ Land /\ pc' = "retry" /\ err' = "fatal" /\ UNCHANGED result
       \/ /\ pc' = "retry" /\ err' \in {"retryable", "fatal"}
          /\ UNCHANGED <<durable, result>>
    /\ UNCHANGED <<number, step, tries, ctxVars>>

\* Faulty variant: one attempt too many.
RetryOnceMore ==
    /\ pc = "retry"
    /\ IF err # "retryable" \/ number > Attempts
       THEN Return(err)
       ELSE pc' = "wait" /\ UNCHANGED result
    /\ UNCHANGED <<number, step, tries, err, ctxVars, dbVars>>

\* Faulty variant: every error is retried.
RetryAnyError ==
    /\ pc = "retry"
    /\ IF number = Attempts
       THEN Return(err)
       ELSE pc' = "wait" /\ UNCHANGED result
    /\ UNCHANGED <<number, step, tries, err, ctxVars, dbVars>>

Retry ==
    /\ pc = "retry"
    /\ IF err # "retryable" \/ number = Attempts
       THEN Return(err)
       ELSE pc' = "wait" /\ UNCHANGED result
    /\ UNCHANGED <<number, step, tries, err, ctxVars, dbVars>>

\* The select between ctx.Done() and the timer takes either when both are ready.
WaitCancelled ==
    /\ pc = "wait" /\ cancelled
    /\ Return("cancelled")
    /\ UNCHANGED <<number, step, tries, err, ctxVars, dbVars>>

\* Faulty variant: the attempt is not counted.
WaitNotCounted ==
    /\ pc = "wait"
    /\ pc' = "check"
    /\ UNCHANGED <<number, step, tries, err, result, ctxVars, dbVars>>

WaitElapsed ==
    /\ pc = "wait"
    /\ number' = number + 1
    /\ pc' = "check"
    /\ UNCHANGED <<step, tries, err, result, ctxVars, dbVars>>

-----------------------------------------------------------------------------
(* The environment                                                         *)

Cancel ==
    /\ pc \notin Ended /\ ~cancelled
    /\ cancelled' = TRUE
    /\ UNCHANGED <<setup, late, callVars, dbVars>>

\* The process dies: the database rolls its transaction back.
Crash ==
    /\ pc \notin Ended
    /\ pc' = "crashed"
    /\ Release
    /\ UNCHANGED <<durable, number, step, tries, err, result, ctxVars>>

Step ==
    \/ CheckContext \/ Begin \/ Save \/ Finish \/ Rollback \/ Abandon
    \/ Commit \/ Retry \/ WaitCancelled \/ WaitElapsed

Next == Step \/ Cancel \/ Crash

Spec == Init /\ [][Next]_vars

\* The goroutine of the call runs, statements are answered, timers fire.
FairSpec == Spec /\ WF_vars(Step)

(***************************************************************************)
(* Correctness                                                             *)
(***************************************************************************)

Nothing == \A w \in Write : durable[w] = 0

\* The bodies that keep their transaction: on MySQL, no SaveRetryTx in it.
SafeSetups == \A s \in Setups : s.adapter = "mysql" => s.retrying = {}

\* Only an attempt that is not the last one is followed by a wait.
Counted == pc = "wait" => number < Attempts

\* The body's saves so far are in one open transaction, which a failed
\* statement of PostgreSQL may have spoilt.
TransactionInv ==
    /\ held <=> pc \in Inside
    /\ pc \notin Inside => session = "idle" /\ pending = {}
    /\ pc = "body" =>
        \/ session = "open" /\ pending = 1 .. (step - 1)
        \/ session = "aborted" /\ step <= N /\ setup.adapter = "postgres"
    /\ pc \in {"commit", "abandon"} => session = "open" /\ pending = Write

\* Nothing is durable before COMMIT, and after it only a nil error or a fatal
\* one follows.
EffectInv ==
    /\ Nothing \/ durable = [w \in Write |-> 1]
    /\ pc \in Inside \cup {"check", "begin", "wait"} => Nothing
    /\ pc \in {"rollback", "retry"} => err \in Classes
    /\ pc = "retry" /\ err # "fatal" => Nothing
    /\ result # "none" <=> pc = "done"
    /\ late = 1 => cancelled /\ pc \notin {"begin", "commit"} /\ Nothing
    /\ late <= 1

\* The inductive invariant: what the call holds, has done and reports at every
\* point of its program.
IndInv == TypeOK /\ Counted /\ TransactionInv /\ EffectInv

\* No connection is kept while the call sleeps, begins again or has returned:
\* every path out of an attempt ends its transaction
\* (_RollbackTransaction and the commit in WithTransactionRetryContext).
NoTransactionLeft ==
    pc \notin Inside => ~held /\ session = "idle"

\* After a cancellation begin() is called once more at most (the context may
\* be done just after its check), and what was begun so is not committed
\* ("cancellation before commit rolls back the active transaction").
CancelStops == late <= 1 /\ (late = 1 => Nothing)

\* The call returns, whatever the database answers: _Retry ends the loop.
Returns == <>(pc \in Ended)

\* The call keeps AtomicCall's promise: all or nothing, once, and an error
\* that is not fatal means nothing ("executes fn in a new transaction").
Atomic == INSTANCE AtomicCall WITH Write <- Write, durable <- durable, result <- result
AtomicSpec == Atomic!Spec

\* A nil error means that every save of the body has taken effect, once
\* ("executes fn in a new transaction", database_repository.go:241).  A
\* deadlock under SaveRetryTx breaks it on MySQL: the saves before it are
\* rolled back, those after it commit one by one.
OkMeansAll == result = "ok" => \A w \in Write : durable[w] = 1

=============================================================================
