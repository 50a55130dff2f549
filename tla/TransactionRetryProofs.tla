----------------------- MODULE TransactionRetryProofs -----------------------
(* Proofs about TransactionRetry. *)
EXTENDS TransactionRetry, TLAPS

\* A call makes one attempt at least.
LEMMA AttemptsType == ASSUME setup \in Setups PROVE Attempts \in Nat \ {0}
<1>1. setup \in SetupType
  BY CallAssumption DEF CallAssumption
<1>2. setup.maxRetries \in Int
  BY <1>1 DEF SetupType
<1>. QED
  BY <1>2 DEF Attempts

\* The initial states have their types.
LEMMA TypeInit == Init => TypeOK /\ Counted
<1>. USE CallAssumption DEF CallAssumption, Counted, Write, Ended, Inside, Outside, Classes
<1>. SUFFICES ASSUME Init PROVE TypeOK /\ Counted
  OBVIOUS
<1>. USE DEF Init
<1>1. Attempts \in Nat \ {0}
  BY AttemptsType
<1>2. 1 \in 1 .. Attempts /\ 1 \in 1 .. N + 1 /\ 0 \in 0 .. SaveTries - 1
  BY <1>1
<1>3. durable \in [Write -> Nat]
  OBVIOUS
<1>. QED
  BY <1>2, <1>3 DEF TypeOK

\* Every step keeps them.  An attempt is counted after a wait, which follows
\* every attempt but the last.
LEMMA TypeStep == TypeOK /\ Counted /\ [Next]_vars => (TypeOK /\ Counted)'
<1>. USE CallAssumption DEF CallAssumption, Counted, Write, Ended, Inside, Outside, Classes
<1>. SUFFICES ASSUME TypeOK, Counted, [Next]_vars PROVE (TypeOK /\ Counted)'
  OBVIOUS
<1>. USE DEF TypeOK, ctxVars, dbVars, Return, Release
<1>0. Attempts \in Nat \ {0} /\ (setup' = setup => Attempts' = Attempts)
  BY AttemptsType DEF Attempts
<1>1. CASE CheckContext
  BY <1>0, <1>1 DEF CheckContext
<1>2. CASE Begin
  <2>1. TypeOK'
    <3>1. late' \in Nat /\ step' \in 1 .. N + 1 /\ tries' \in 0 .. SaveTries - 1
      BY <1>2 DEF Begin
    <3>2. UNCHANGED <<setup, cancelled, number, result, pending, durable>>
      BY <1>2 DEF Begin
    <3>3. /\ pc' \in {"body", "retry"} /\ err' \in Classes \cup {"none"}
          /\ held' \in BOOLEAN /\ session' \in {"idle", "open", "aborted"}
      BY <1>2 DEF Begin
    <3>. QED
      BY <1>0, <3>1, <3>2, <3>3
  <2>2. Counted'
    BY <1>0, <1>2 DEF Begin
  <2>. QED
    BY <2>1, <2>2
<1>3. CASE Save
  <2>1. PICK o \in Outcomes :
           /\ Execute(step, o)
           /\ \/ o = "ok" /\ step' = step + 1 /\ tries' = 0 /\ UNCHANGED <<pc, err>>
              \/ o # "ok" /\ Again(o) /\ tries' = tries + 1 /\ UNCHANGED <<pc, step, err>>
              \/ /\ o # "ok" /\ ~Again(o)
                 /\ pc' = "rollback" /\ err' = ClassOf(o)
                 /\ UNCHANGED <<step, tries>>
    BY <1>3 DEF Save
  <2>2. UNCHANGED <<number, result, held, setup, cancelled, late>> /\ step \in Write /\ pc = "body"
    BY <1>3 DEF Save
  <2>3. session' \in {"idle", "open", "aborted"} /\ pending' \subseteq Write
          /\ durable' \in [Write -> Nat]
    BY <2>1, <2>2 DEF Execute, Put, Abort
  <2>4. step' \in 1 .. N + 1 /\ tries' \in 0 .. SaveTries - 1
    BY <2>1, <2>2 DEF Again
  <2>5. pc' \in {"body", "rollback"} /\ err' \in Classes \cup {"none"}
    BY <2>1, <2>2 DEF ClassOf
  <2>. QED
    BY <1>0, <2>2, <2>3, <2>4, <2>5
<1>4. CASE Finish
  BY <1>0, <1>4 DEF Finish
<1>5. CASE Rollback
  BY <1>0, <1>5 DEF Rollback
<1>6. CASE Abandon
  BY <1>0, <1>6 DEF Abandon
<1>7. CASE Commit
  <2>1. durable' \in [Write -> Nat]
    BY <1>7 DEF Commit, Land
  <2>2. /\ pc' \in {"done", "retry"} /\ err' \in Classes \cup {"none"}
        /\ result' \in Classes \cup {"none", "ok", "cancelled"}
    BY <1>7 DEF Commit
  <2>3. UNCHANGED <<number, step, tries, ctxVars>> /\ Release
    BY <1>7 DEF Commit
  <2>. QED
    BY <1>0, <2>1, <2>2, <2>3
<1>8. CASE Retry
  BY <1>0, <1>8 DEF Retry
<1>9. CASE WaitCancelled
  BY <1>0, <1>9 DEF WaitCancelled
<1>10. CASE WaitElapsed
  <2>1. number + 1 \in 1 .. Attempts
    BY <1>0, <1>10 DEF WaitElapsed
  <2>. QED
    BY <2>1, <1>0, <1>10 DEF WaitElapsed
<1>11. CASE Cancel
  BY <1>0, <1>11 DEF Cancel, callVars
<1>12. CASE Crash
  BY <1>0, <1>12 DEF Crash
<1>13. CASE UNCHANGED vars
  BY <1>0, <1>13 DEF vars, callVars
<1>. QED
  BY <1>1, <1>2, <1>3, <1>4, <1>5, <1>6, <1>7, <1>8, <1>9, <1>10, <1>11,
     <1>12, <1>13 DEF Next, Step

\* Every variable keeps its type, for every body and adapter: the attempts
\* never exceed maxRetries, nor the statements of a SaveRetryTx their limit.
THEOREM TypeCorrect == Spec => []TypeOK
<1>. QED
  BY TypeInit, TypeStep, PTL DEF Spec

\* A statement of a body that keeps its transaction leaves it open with one
\* more save in it, or the body has failed.
LEMMA SaveStep ==
    ASSUME SafeSetups, IndInv, Save
    PROVE  /\ UNCHANGED <<durable, held, result, setup, cancelled, late>>
           /\ \/ /\ pc' = "body"
                 /\ \/ session' = "open" /\ pending' = 1 .. (step' - 1)
                    \/ session' = "aborted" /\ step' <= N /\ setup.adapter = "postgres"
              \/ pc' = "rollback" /\ err' \in Classes
<1>. USE DEF IndInv, Write
<1>1. N \in Nat \ {0} /\ SaveTries \in Nat \ {0}
  BY CallAssumption DEF CallAssumption
<1>2. PICK o \in Outcomes :
         /\ Execute(step, o)
         /\ \/ o = "ok" /\ step' = step + 1 /\ tries' = 0 /\ UNCHANGED <<pc, err>>
            \/ o # "ok" /\ Again(o) /\ tries' = tries + 1 /\ UNCHANGED <<pc, step, err>>
            \/ /\ o # "ok" /\ ~Again(o)
               /\ pc' = "rollback" /\ err' = ClassOf(o)
               /\ UNCHANGED <<step, tries>>
  BY DEF Save
<1>3. pc = "body" /\ step \in 1 .. N /\ UNCHANGED <<result, held, setup, cancelled, late>>
  BY <1>1 DEF Save, ctxVars, TypeOK
<1>4. \/ session = "open" /\ pending = 1 .. (step - 1)
      \/ session = "aborted" /\ setup.adapter = "postgres"
  BY <1>3 DEF TransactionInv
<1>5. setup \in Setups /\ setup.adapter \in {"mysql", "postgres"}
  BY CallAssumption DEF TypeOK, CallAssumption, SetupType
<1>6. session = "aborted" => o \notin {"ok", "posthook"}
  BY DEF Outcomes
<1>7. UNCHANGED durable
  BY <1>2, <1>4, <1>6 DEF Execute, Put, Abort
<1>8. CASE o = "ok"
  <2>1. session' = "open" /\ pending' = (1 .. (step - 1)) \cup {step}
    BY <1>2, <1>4, <1>6, <1>8 DEF Execute, Put
  <2>2. step' = step + 1 /\ pc' = "body"
    BY <1>2, <1>3, <1>8
  <2>3. (1 .. (step - 1)) \cup {step} = 1 .. (step + 1 - 1)
    BY <1>3
  <2>. QED
    BY <1>3, <1>7, <2>1, <2>2, <2>3
<1>9. CASE o # "ok" /\ Again(o)
  <2>1. step \in setup.retrying /\ o \in {"deadlock", "lockwait"}
    BY <1>9 DEF Again, ClassOf
  <2>2. setup.adapter = "postgres"
    BY <1>5, <2>1 DEF SafeSetups
  <2>3. o = "deadlock"
    BY <2>1, <2>2 DEF Outcomes
  <2>4. session' = "aborted"
    BY <1>2, <2>2, <2>3 DEF Execute, Abort
  <2>. QED
    BY <1>2, <1>3, <1>7, <1>9, <2>2, <2>4
<1>10. CASE o # "ok" /\ ~Again(o)
  BY <1>2, <1>3, <1>7, <1>10 DEF ClassOf, Classes
<1>. QED
  BY <1>8, <1>9, <1>10

\* COMMIT makes all the saves durable, or none.
LEMMA CommitStep ==
    ASSUME IndInv, Commit
    PROVE  \/ durable' = [w \in Write |-> 1] /\ result' = "ok" /\ pc' = "done"
           \/ /\ durable' = [w \in Write |-> 1]
              /\ result' = result /\ pc' = "retry" /\ err' = "fatal"
           \/ /\ durable' = durable
              /\ result' = result /\ pc' = "retry" /\ err' \in {"retryable", "fatal"}
<1>1. pending = Write /\ \A w \in Write : durable[w] = 0
  BY DEF IndInv, TransactionInv, EffectInv, Nothing, Commit, Inside
<1>2. Land => durable' = [w \in Write |-> 1]
  BY <1>1 DEF Land
<1>. QED
  BY <1>2 DEF Commit, Return

\* Every step keeps the invariant.
LEMMA Preserved ==
    ASSUME SafeSetups, IndInv, [Next]_vars
    PROVE  IndInv'
<1>1. (TypeOK /\ Counted)'
  BY TypeStep DEF IndInv
<1>. USE DEF IndInv, Inside, Return, Release, ctxVars, dbVars
<1>2. TransactionInv'
  <2>. USE DEF TransactionInv
  <2>1. CASE CheckContext
    BY <2>1 DEF CheckContext
  <2>2. CASE Begin
    <3>1. pending = {} /\ 1 .. (1 - 1) = {}
      BY <2>2 DEF Begin
    <3>. QED
      BY <2>2, <3>1 DEF Begin
  <2>3. CASE Save
    <3>1. pc = "body" /\ held
      BY <2>3 DEF Save
    <3>. QED
      BY SaveStep, <2>3, <3>1
  <2>4. CASE Finish
    <3>1. N \in Nat /\ 1 .. (N + 1 - 1) = Write
      BY CallAssumption DEF CallAssumption, Write
    <3>2. session = "open" /\ pending = Write
      BY <2>4, <3>1 DEF Finish
    <3>. QED
      BY <2>4, <3>2 DEF Finish
  <2>5. CASE Rollback
    BY <2>5 DEF Rollback
  <2>6. CASE Abandon
    BY <2>6 DEF Abandon
  <2>7. CASE Commit
    BY <2>7 DEF Commit
  <2>8. CASE Retry
    BY <2>8 DEF Retry
  <2>9. CASE WaitCancelled
    BY <2>9 DEF WaitCancelled
  <2>10. CASE WaitElapsed
    BY <2>10 DEF WaitElapsed
  <2>11. CASE Cancel
    BY <2>11 DEF Cancel, callVars
  <2>12. CASE Crash
    BY <2>12 DEF Crash
  <2>13. CASE UNCHANGED vars
    BY <2>13 DEF vars, callVars
  <2>. QED
    BY <2>1, <2>2, <2>3, <2>4, <2>5, <2>6, <2>7, <2>8, <2>9, <2>10, <2>11,
       <2>12, <2>13 DEF Next, Step
<1>3. EffectInv'
  <2>. USE DEF EffectInv, Nothing
  <2>1. CASE CheckContext
    BY <2>1 DEF CheckContext
  <2>2. CASE Begin
    BY <2>2 DEF Begin, TypeOK, Classes
  <2>3. CASE Save
    <3>1. pc = "body"
      BY <2>3 DEF Save
    <3>. QED
      BY SaveStep, <2>3, <3>1
  <2>4. CASE Finish
    BY <2>4 DEF Finish
  <2>5. CASE Rollback
    BY <2>5 DEF Rollback
  <2>6. CASE Abandon
    BY <2>6 DEF Abandon
  <2>7. CASE Commit
    <3>1. pc = "commit" /\ result = "none" /\ late # 1 /\ UNCHANGED <<late, cancelled>>
      BY <2>7 DEF Commit
    <3>. QED
      BY CommitStep, <2>7, <3>1 DEF Classes
  <2>8. CASE Retry
    BY <2>8 DEF Retry, Classes
  <2>9. CASE WaitCancelled
    BY <2>9 DEF WaitCancelled
  <2>10. CASE WaitElapsed
    BY <2>10 DEF WaitElapsed
  <2>11. CASE Cancel
    BY <2>11 DEF Cancel, callVars
  <2>12. CASE Crash
    BY <2>12 DEF Crash, Ended
  <2>13. CASE UNCHANGED vars
    BY <2>13 DEF vars, callVars
  <2>. QED
    BY <2>1, <2>2, <2>3, <2>4, <2>5, <2>6, <2>7, <2>8, <2>9, <2>10, <2>11,
       <2>12, <2>13 DEF Next, Step
<1>. QED
  BY <1>1, <1>2, <1>3

\* A call begins with nothing durable and no transaction.
LEMMA Initially == Init => IndInv
<1>. SUFFICES ASSUME Init PROVE TransactionInv /\ EffectInv
  BY TypeInit DEF IndInv
<1>. QED
  BY DEF Init, TransactionInv, EffectInv, Nothing, Inside

\* The inductive invariant: as long as a body keeps its transaction, nothing
\* is durable before COMMIT, then everything is, and an error that is not
\* fatal is returned only when nothing is.
THEOREM Inductive == ASSUME SafeSetups PROVE Spec => []IndInv
<1>. QED
  BY Initially, Preserved, PTL DEF Spec

\* No connection is kept outside an attempt.
THEOREM NothingKept == ASSUME SafeSetups PROVE Spec => []NoTransactionLeft
<1>1. IndInv => NoTransactionLeft
  BY DEF IndInv, TransactionInv, NoTransactionLeft
<1>. QED
  BY Inductive, <1>1, PTL

\* After a cancellation one transaction is begun at most, and not committed.
THEOREM CancellationStops == ASSUME SafeSetups PROVE Spec => []CancelStops
<1>1. IndInv => CancelStops
  BY DEF IndInv, EffectInv, CancelStops, Nothing
<1>. QED
  BY Inductive, <1>1, PTL

\* A step is one of AtomicCall's, or changes nothing the caller can see.
LEMMA StepRefines ==
    ASSUME IndInv, SafeSetups, [Next]_vars
    PROVE  [Atomic!Next]_<<durable, result>>
<1>. USE DEF IndInv, Return, Release, ctxVars, dbVars
<1>0. Nothing => Atomic!Nothing
  BY DEF Nothing, Atomic!Nothing, TypeOK
<1>. USE DEF EffectInv, Atomic!Next, Atomic!Apply, Atomic!Fail, Atomic!Errors, Atomic!Clean
<1>1. CASE CheckContext
  BY <1>0, <1>1 DEF CheckContext, Ended
<1>2. CASE Begin
  BY <1>2 DEF Begin
<1>3. CASE Save
  BY <1>3, SaveStep
<1>4. CASE Finish
  BY <1>4 DEF Finish
<1>5. CASE Rollback
  BY <1>5 DEF Rollback
<1>6. CASE Abandon
  BY <1>0, <1>6 DEF Abandon, Inside
<1>7. CASE Commit
  <2>1. pc = "commit" /\ Nothing /\ result = "none"
    BY <1>7 DEF Commit, Inside
  <2>. QED
    BY <1>0, <1>7, <2>1, CommitStep
<1>8. CASE Retry
  <2>1. pc = "retry" /\ err \in Classes /\ result = "none" /\ (err # "fatal" => Nothing)
    BY <1>8 DEF Retry
  <2>. QED
    BY <1>0, <1>8, <2>1 DEF Retry, Classes
<1>9. CASE WaitCancelled
  BY <1>0, <1>9 DEF WaitCancelled
<1>10. CASE WaitElapsed
  BY <1>10 DEF WaitElapsed
<1>11. CASE Cancel
  BY <1>11 DEF Cancel, callVars
<1>12. CASE Crash
  BY <1>12 DEF Crash
<1>13. CASE UNCHANGED vars
  BY <1>13 DEF vars, callVars
<1>. QED
  BY <1>1, <1>2, <1>3, <1>4, <1>5, <1>6, <1>7, <1>8, <1>9, <1>10, <1>11,
     <1>12, <1>13 DEF Next, Step

\* For every number of saves, attempts and statements, a call whose body keeps
\* its transaction implements AtomicCall.
THEOREM Refines == ASSUME SafeSetups PROVE Spec => AtomicSpec
<1>1. Init => Atomic!Init
  BY DEF Init, Atomic!Init, Atomic!Nothing
<1>. QED
  BY <1>1, Inductive, StepRefines, PTL DEF Spec, AtomicSpec, Atomic!Spec

=============================================================================
