---------------------- MODULE CassandraRepositoryProofs ----------------------
(* What the callers of CassandraRepository are told, what their writes remove    *)
(* and what its readers find, for any keys, callers, readers, calls, page sizes *)
(* and faults.                                                                  *)
EXTENDS CassandraRepository, FiniteSetTheorems, TLAPS

Answers == {"nil", "not applied", "error"}

\* The calls under way, and those that have returned.
CallType ==
    [op : {"none", "create", "save", "delete"}, key : Key \cup {None},
     model : {None} \cup {new.model : new \in Calls},
     step : {"statement", "post", "returned"}, applied : BOOLEAN,
     out : {None} \cup Answers,
     blame : {"nothing", "lost answer", "post hook"}]

\* Before its statement a call has done nothing; between the statement and the
\* post hook it has, and has told nobody.
Progress ==
    \A c \in Caller :
        /\ call[c].step = "statement" =>
            /\ ~call[c].applied /\ call[c].out = None
            /\ call[c].key \in Key /\ call[c].op # "none"
            /\ \E new \in Calls : call[c].model = new.model
        /\ call[c].step = "post" => call[c].applied /\ call[c].out = None

Cells == {None} \cup [expires : BOOLEAN]

CallsInv ==
    /\ call \in [Caller -> CallType]
    /\ table \in [Key -> Cells]
    /\ faults \in 0 .. MaxFaults
    /\ Progress
    /\ Told

LEMMA Bound == MaxFaults \in Nat
BY KeyAssumption

LEMMA FaultsBounded ==
    ASSUME faults \in 0 .. MaxFaults, Fault \/ NoFault
    PROVE  faults' \in 0 .. MaxFaults
BY Bound DEF Fault, NoFault

\* A DELETE names the row of its key, and all of the partition at most; the row
\* alone when the struct has a field for both key columns.
LEMMA DeletesItsPartition ==
    ASSUME NEW k \in Key, NEW m, "partition_key" \in m.columns
    PROVE  /\ k \in DeleteQuery(k, m)
           /\ \A j \in DeleteQuery(k, m) : j[1] = k[1]
           /\ "clustering" \in m.columns => DeleteQuery(k, m) = {k}
<1>1. \A j \in Nat \X (Nat \ {0}) : j = <<j[1], j[2]>>
  OBVIOUS
<1>2. \A j \in Key : j = <<j[1], j[2]>>
  BY <1>1, KeyAssumption
<1>3. k \in DeleteQuery(k, m)
  BY DEF DeleteQuery
<1>4. \A j \in DeleteQuery(k, m) : j \in Key /\ j[1] = k[1]
  BY DEF DeleteQuery, Value
<1>5. ASSUME "clustering" \in m.columns PROVE \A j \in DeleteQuery(k, m) : j[2] = k[2]
  BY <1>5 DEF DeleteQuery, Value
<1>6. ASSUME "clustering" \in m.columns PROVE DeleteQuery(k, m) = {k}
  <2>1. \A j \in DeleteQuery(k, m) : j = k
    BY <1>2, <1>4, <1>5, <1>6
  <2> QED
    BY <1>3, <2>1
<1> QED
  BY <1>3, <1>4, <1>6

LEMMA IdleType == Idle \in CallType
BY KeyAssumption DEF Idle, CallType

LEMMA RowIsNotNone ==
    ASSUME NEW m
    PROVE  Row(m) # None
<1>1. Row(m) \in [expires : BOOLEAN]
  BY DEF Row
<1> QED
  BY <1>1, KeyAssumption

\* The rows that a statement may remove.
Named(c, k) ==
    /\ call[c].op = "delete"
    /\ k = call[c].key \/ (k[1] = call[c].key[1] /\ "clustering" \notin call[c].model.columns)

\* No statement that Cassandra accepts removes another.
LEMMA EffectIsNamed ==
    ASSUME CallsInv, NEW c \in Caller, call[c].step = "statement",
           Accepted(call[c].op, call[c].model), NEW k \in Rows, Effect(c)[k] = None
    PROVE  Named(c, k)
<1>1. call[c].key \in Key /\ k \in Key /\ table[k] # None
  BY DEF CallsInv, Progress, Rows
<1>2. CASE call[c].op = "delete"
  <2> DEFINE killed == DeleteQuery(call[c].key, call[c].model)
  <2>1. "partition_key" \in call[c].model.columns
    BY <1>2 DEF Accepted
  <2>2. /\ \A j \in killed : j[1] = call[c].key[1]
        /\ "clustering" \in call[c].model.columns => killed = {call[c].key}
    BY <1>1, <2>1, DeletesItsPartition
  <2> HIDE DEF killed
  <2>3. Effect(c)[k] = IF k \in killed THEN None ELSE table[k]
    BY <1>1, <1>2 DEF Effect, killed
  <2>4. k \in killed
    BY <1>1, <2>3
  <2> QED
    BY <1>2, <2>2, <2>4 DEF Named
<1>3. CASE call[c].op # "delete"
  <2>1. table \in [Key -> Cells]
    BY DEF CallsInv
  <2>2. Effect(c) = [table EXCEPT ![call[c].key] = Row(call[c].model)]
    BY <1>3 DEF Effect
  <2>3. Effect(c)[k] = IF k = call[c].key THEN Row(call[c].model) ELSE table[k]
    BY <1>1, <2>1, <2>2
  <2>4. Row(call[c].model) # None
    BY RowIsNotNone
  <2> QED
    BY <1>1, <2>3, <2>4
<1> QED
  BY <1>2, <1>3

\* What a step that changes one call owes to the invariant.
LEMMA OneCall ==
    ASSUME CallsInv, NEW c \in Caller, NEW state \in CallType,
           call' = [call EXCEPT ![c] = state],
           table' \in [Key -> Cells], Fault \/ NoFault,
           state.step = "statement" =>
              /\ ~state.applied /\ state.out = None
              /\ state.key \in Key /\ state.op # "none"
              /\ \E new \in Calls : state.model = new.model,
           state.step = "post" => state.applied /\ state.out = None,
           state.out = "nil" => state.applied,
           state.out \in {"not applied", "error"} =>
              ~state.applied \/ state.blame \in {"lost answer", "post hook"}
    PROVE  CallsInv'
<1>1. call' \in [Caller -> CallType]
  BY DEF CallsInv
<1>2. \A d \in Caller : call'[d] = IF d = c THEN state ELSE call[d]
  BY DEF CallsInv
<1>3. Progress'
  BY <1>2 DEF CallsInv, Progress
<1>4. Told'
  BY <1>2 DEF CallsInv, Told
<1>5. faults' \in 0 .. MaxFaults
  BY FaultsBounded DEF CallsInv
<1> QED
  BY <1>1, <1>3, <1>4, <1>5 DEF CallsInv

LEMMA TableType ==
    ASSUME CallsInv, NEW c \in Caller, table' = Effect(c) \/ table' = table
    PROVE  table' \in [Key -> Cells]
<1>1. table \in [Key -> Cells]
  BY DEF CallsInv
<1>2. CASE table' = table
  BY <1>1, <1>2
<1>3. CASE table' = Effect(c)
  <2>1. PICK expires \in BOOLEAN : Row(call[c].model) = [expires |-> expires]
    BY DEF Row
  <2>2. Row(call[c].model) \in Cells /\ None \in Cells
    BY <2>1 DEF Cells
  <2>3. Effect(c) \in [Key -> Cells]
    BY <1>1, <2>2 DEF Effect
  <2> QED
    BY <1>3, <2>3
<1> QED
  BY <1>2, <1>3

LEMMA InitCalls == Init => CallsInv
<1> SUFFICES ASSUME Init PROVE CallsInv
  OBVIOUS
<1>1. call \in [Caller -> CallType] /\ \A c \in Caller : call[c] = Idle
  BY IdleType DEF Init
<1>2. Progress /\ Told
  <2>1. Idle.step = "returned" /\ Idle.out = None
    BY DEF Idle
  <2>2. None \notin {"nil", "not applied", "error"}
    BY KeyAssumption
  <2> QED
    BY <1>1, <2>1, <2>2 DEF Progress, Told
<1>3. table \in [Key -> Cells]
  BY DEF Init, Cells
<1>4. faults \in 0 .. MaxFaults
  BY Bound DEF Init
<1> QED
  BY <1>1, <1>2, <1>3, <1>4 DEF CallsInv

LEMMA BeginInv ==
    ASSUME CallsInv, NEW c \in Caller, NEW new \in Calls, Begin(c, new)
    PROVE  CallsInv'
<1> DEFINE failed == [Idle EXCEPT !.out = "error"]
           begun == [Idle EXCEPT !.op = new.op, !.key = new.key, !.model = new.model,
                                 !.step = "statement"]
<1>1. /\ failed \in CallType /\ begun \in CallType
  BY CallAssumption, IdleType DEF Idle, CallType, Answers
<1>2. table' = table
  BY DEF Begin
<1>3. table' \in [Key -> Cells]
  BY <1>2, TableType
<1>f. Fault \/ NoFault
  BY DEF Begin
<1>4. \/ call' = [call EXCEPT ![c] = failed]
      \/ call' = [call EXCEPT ![c] = begun]
  BY DEF Begin, Become
<1>5. CASE call' = [call EXCEPT ![c] = failed]
  <2>1. /\ failed.step = "returned" /\ failed.out = "error" /\ ~failed.applied
    BY DEF Idle
  <2> HIDE DEF failed
  <2> QED
    BY <1>1, <1>3, <1>f, <1>5, <2>1, OneCall
<1>6. CASE call' = [call EXCEPT ![c] = begun]
  <2>1. /\ begun.step = "statement" /\ begun.out = None /\ ~begun.applied
        /\ begun.key \in Key /\ begun.op # "none" /\ begun.model = new.model
    BY CallAssumption DEF Idle
  <2> HIDE DEF begun
  <2> QED
    BY <1>1, <1>3, <1>f, <1>6, <2>1, OneCall, KeyAssumption
<1> QED
  BY <1>4, <1>5, <1>6

\* What Return makes of a call that is at its statement or its post hook.
LEMMA ReturnType ==
    ASSUME CallsInv, NEW c \in Caller, NEW out \in Answers,
           NEW blame \in {"nothing", "lost answer", "post hook"}
    PROVE  /\ Return(c, out, blame) \in CallType
           /\ Return(c, out, blame).step = "returned"
           /\ Return(c, out, blame).out = out
           /\ Return(c, out, blame).blame = blame
BY DEF CallsInv, CallType, Return

LEMMA ReturnApplied ==
    ASSUME CallsInv, NEW c \in Caller, NEW out \in Answers,
           NEW blame \in {"nothing", "lost answer", "post hook"}
    PROVE  Return(c, out, blame).applied = call[c].applied
BY DEF CallsInv, CallType, Return

LEMMA ExecutedInv ==
    ASSUME CallsInv, NEW c \in Caller, call[c].step = "statement", Executed(c)
    PROVE  CallsInv'
<1> DEFINE says == Said(c, Applies(c), TRUE)
           done == [call[c] EXCEPT !.applied = Applies(c)]
           next == [done EXCEPT !.step = "post"]
           told == Return(c, says, "nothing")
<1>1. /\ call[c] \in CallType /\ call[c].key \in Key
      /\ call[c].out = None
  BY DEF CallsInv, Progress
<1>a. ~call[c].applied
  BY DEF CallsInv, Progress
<1>2. Applies(c) \in BOOLEAN
  BY DEF Applies
<1>4. says \in Answers /\ (says = "nil" <=> Applies(c))
  BY DEF Said, Try, Applies, Answers
<1>5. call' = [call EXCEPT ![c] = IF says = "nil" THEN next ELSE told]
  BY DEF Executed, Become
<1>6. table' \in [Key -> Cells] /\ NoFault
  BY TableType DEF Executed, Store
<1>7. CASE says = "nil"
  <2>1. next \in CallType
    BY <1>1, <1>2 DEF CallType
  <2>2. next.step = "post" /\ next.applied = Applies(c) /\ next.out = None
    BY <1>1 DEF CallType
  <2>3. call' = [call EXCEPT ![c] = next]
    BY <1>5, <1>7
  <2> HIDE DEF next
  <2> QED
    BY <1>4, <1>6, <1>7, <2>1, <2>2, <2>3, OneCall, KeyAssumption
<1>8. CASE says # "nil"
  <2>1. call' = [call EXCEPT ![c] = told]
    BY <1>5, <1>8
  <2>2. /\ told \in CallType /\ told.step = "returned" /\ told.out = says
    <3> HIDE DEF says
    <3> QED
      BY <1>1, <1>4, ReturnType
  <2>3. ~told.applied
    <3> HIDE DEF says
    <3> QED
      BY <1>4, <1>a, ReturnApplied
  <2> HIDE DEF told, says
  <2> QED
    BY <1>4, <1>6, <1>8, <2>1, <2>2, <2>3, OneCall
<1> QED
  BY <1>7, <1>8

\* A call is past its statement whatever becomes of it.
LEMMA StatementEnds ==
    ASSUME CallsInv, NEW c \in Caller, Statement(c)
    PROVE  call'[c].step # "statement"
<1>1. call \in [Caller -> CallType]
  BY DEF CallsInv
<1>2. call[c] \in CallType
  BY <1>1
<1>3. ASSUME NEW out, NEW blame PROVE Return(c, out, blame).step = "returned"
  BY <1>2 DEF Return, CallType
<1>4. CASE Executed(c)
  BY <1>1, <1>2, <1>3, <1>4 DEF Executed, Become, CallType
<1>5. CASE Unanswered(c)
  <2> DEFINE lost(b) == Return(c, Said(c, FALSE, FALSE), b)
  <2>1. \E b \in {"lost answer", "nothing"} :
          \/ call' = [call EXCEPT ![c] = [lost(b) EXCEPT !.applied = TRUE]]
          \/ call' = [call EXCEPT ![c] = lost(b)]
    BY <1>5 DEF Unanswered, Become
  <2>2. \A b : lost(b).step = "returned" /\ [lost(b) EXCEPT !.applied = TRUE].step = "returned"
    BY <1>2 DEF Return, CallType
  <2> HIDE DEF lost
  <2> QED
    BY <1>1, <2>1, <2>2
<1> QED
  BY <1>4, <1>5 DEF Statement

LEMMA UnansweredInv ==
    ASSUME CallsInv, NEW c \in Caller, call[c].step = "statement", Unanswered(c)
    PROVE  CallsInv'
<1> DEFINE says == Said(c, FALSE, FALSE)
           lost == Return(c, says, "lost answer")
           took == [lost EXCEPT !.applied = TRUE]
           told == Return(c, says, "nothing")
<1>1. says \in Answers /\ says # "nil"
  BY DEF Said, Try, Answers
<1>3. table' \in [Key -> Cells] /\ (Fault \/ NoFault)
  BY TableType DEF Unanswered, Store
<1>4. /\ lost \in CallType /\ lost.step = "returned" /\ lost.out = says
      /\ lost.blame = "lost answer"
  <2> HIDE DEF says
  <2>1. lost \in CallType /\ lost.step = "returned" /\ lost.out = says
    BY <1>1, ReturnType
  <2>2. lost.blame = "lost answer"
    BY <1>1, ReturnType
  <2> QED
    BY <2>1, <2>2
<1>5. /\ told \in CallType /\ told.step = "returned" /\ told.out = says
  <2> HIDE DEF says
  <2> QED
    BY <1>1, ReturnType
<1>6. /\ took \in CallType /\ took.step = "returned" /\ took.out = says
      /\ took.blame = "lost answer"
  <2> HIDE DEF lost
  <2> QED
    BY <1>4 DEF CallType
<1>a. ~lost.applied /\ ~told.applied
  <2>1. ~call[c].applied
    BY DEF CallsInv, Progress
  <2> HIDE DEF says
  <2> QED
    BY <1>1, <2>1, ReturnApplied
<1>7. \/ call' = [call EXCEPT ![c] = took]
      \/ call' = [call EXCEPT ![c] = lost]
      \/ call' = [call EXCEPT ![c] = told]
  BY DEF Unanswered, Become
<1> HIDE DEF says, lost, took, told
<1>8. CASE call' = [call EXCEPT ![c] = took]
  BY <1>1, <1>3, <1>6, <1>8, OneCall
<1>9. CASE call' = [call EXCEPT ![c] = lost]
  BY <1>1, <1>3, <1>4, <1>9, <1>a, OneCall
<1>10. CASE call' = [call EXCEPT ![c] = told]
  BY <1>1, <1>3, <1>5, <1>10, <1>a, OneCall
<1> QED
  BY <1>7, <1>8, <1>9, <1>10

LEMMA PostHookInv ==
    ASSUME CallsInv, NEW c \in Caller, PostHook(c)
    PROVE  CallsInv'
<1> DEFINE good == Return(c, "nil", "nothing")
           bad == Return(c, "error", "post hook")
<1>2. table' \in [Key -> Cells] /\ (Fault \/ NoFault)
  BY TableType DEF PostHook
<1>3. /\ good \in CallType /\ good.step = "returned" /\ good.out = "nil"
  BY ReturnType DEF Answers
<1>4. /\ bad \in CallType /\ bad.step = "returned" /\ bad.out = "error"
      /\ bad.blame = "post hook"
  BY ReturnType DEF Answers
<1>a. good.applied
  <2>1. call[c].applied
    BY DEF PostHook, CallsInv, Progress
  <2> QED
    BY <2>1, ReturnApplied DEF Answers
<1>5. \/ call' = [call EXCEPT ![c] = good]
      \/ call' = [call EXCEPT ![c] = bad]
  BY DEF PostHook, Become
<1> HIDE DEF good, bad
<1>6. CASE call' = [call EXCEPT ![c] = good]
  BY <1>2, <1>3, <1>6, <1>a, OneCall
<1>7. CASE call' = [call EXCEPT ![c] = bad]
  BY <1>2, <1>4, <1>7, OneCall
<1> QED
  BY <1>5, <1>6, <1>7

\* Expiry and the readers leave the calls alone.
LEMMA OthersInv ==
    ASSUME CallsInv, call' = call, table' \in [Key -> Cells], Fault \/ NoFault
    PROVE  CallsInv'
<1>1. faults' \in 0 .. MaxFaults
  BY FaultsBounded DEF CallsInv
<1> QED
  BY <1>1 DEF CallsInv, Progress, Told

LEMMA NextCalls == CallsInv /\ [Next]_vars => CallsInv'
<1> SUFFICES ASSUME CallsInv, [Next]_vars PROVE CallsInv'
  OBVIOUS
<1>1. table \in [Key -> Cells]
  BY DEF CallsInv
<1>2. ASSUME NEW c \in Caller, NEW new \in Calls, Begin(c, new) PROVE CallsInv'
  BY <1>2, BeginInv
<1>3. ASSUME NEW c \in Caller, Statement(c) PROVE CallsInv'
  BY <1>3, ExecutedInv, UnansweredInv DEF Statement
<1>4. ASSUME NEW c \in Caller, PostHook(c) PROVE CallsInv'
  BY <1>4, PostHookInv
<1>5. ASSUME NEW k \in Key, Expire(k) PROVE CallsInv'
  <2>1. call' = call /\ table' = [table EXCEPT ![k] = None] /\ NoFault
    BY <1>5 DEF Expire, Store, NoFault
  <2>2. table' \in [Key -> Cells]
    BY <1>1, <2>1 DEF Cells
  <2> QED
    BY <2>1, <2>2, OthersInv
<1>6. ASSUME NEW r \in Reader, NEW s \in Shapes, NEW k \in Key, Open(r, s, k[1])
      PROVE  CallsInv'
  BY <1>1, <1>6, OthersInv DEF Open, NoFault
<1>7. ASSUME NEW r \in Reader, Fetch(r) PROVE CallsInv'
  BY <1>1, <1>7, OthersInv DEF Fetch
<1>8. CASE UNCHANGED vars
  BY <1>1, <1>8, OthersInv DEF vars, NoFault
<1> QED
  BY <1>2, <1>3, <1>4, <1>5, <1>6, <1>7, <1>8 DEF Next

-----------------------------------------------------------------------------
(* Options: two at most, one after the other                               *)

LEMMA UpToTwo ==
    ASSUME NEW n \in 0 .. 2, NEW i \in 0 .. n
    PROVE  i = 0 \/ (i = 1 /\ i - 1 = 0) \/ (i = 2 /\ i - 1 = 1)
OBVIOUS

LEMMA Prepared ==
    ASSUME NEW opts, Len(opts) \in 0 .. 2
    PROVE  PrepareQuery(opts) =
             IF Len(opts) = 0 THEN Query
             ELSE IF Len(opts) = 1 THEN Operate(Query, opts[1])
             ELSE Operate(Operate(Query, opts[1]), opts[2])
<1> DEFINE Is(f) == f = [i \in 0 .. Len(opts) |->
                           IF i = 0 THEN Query ELSE Operate(f[i - 1], opts[i])]
           w == [i \in 0 .. Len(opts) |->
                   IF i = 0 THEN Query
                   ELSE IF i = 1 THEN Operate(Query, opts[1])
                   ELSE Operate(Operate(Query, opts[1]), opts[2])]
           c == CHOOSE f : Is(f)
<1>a. Len(opts) = 0 \/ Len(opts) = 1 \/ Len(opts) = 2
  OBVIOUS
<1>b. \A i \in 0 .. Len(opts) : i = 0 \/ (i = 1 /\ i - 1 = 0) \/ (i = 2 /\ i - 1 = 1)
  BY UpToTwo
<1>1. Is(w)
  <2>1. \A i \in 0 .. Len(opts) : w[i] = IF i = 0 THEN Query ELSE Operate(w[i - 1], opts[i])
    <3> SUFFICES ASSUME NEW i \in 0 .. Len(opts)
                 PROVE  w[i] = IF i = 0 THEN Query ELSE Operate(w[i - 1], opts[i])
      OBVIOUS
    <3>1. i = 0 \/ (i = 1 /\ i - 1 = 0) \/ (i = 2 /\ i - 1 = 1)
      BY <1>b
    <3> QED
      BY <3>1
  <2> QED
    BY <2>1
<1>2. Is(c)
  BY <1>1, Zenon
<1>3. PrepareQuery(opts) = c[Len(opts)]
  BY Zenon DEF PrepareQuery
<1> HIDE DEF c
<1>4. \A i \in 0 .. Len(opts) : c[i] = IF i = 0 THEN Query ELSE Operate(c[i - 1], opts[i])
  BY <1>2
<1>5. c[0] = Query
  BY <1>4
<1>6. Len(opts) \in 1 .. 2 => c[1] = Operate(c[0], opts[1])
  <2> SUFFICES ASSUME Len(opts) \in 1 .. 2 PROVE c[1] = Operate(c[0], opts[1])
    OBVIOUS
  <2>1. 1 \in 0 .. Len(opts) /\ 1 - 1 = 0 /\ 1 # 0
    OBVIOUS
  <2> QED
    BY <1>4, <2>1
<1>7. Len(opts) = 2 => c[2] = Operate(c[1], opts[2])
  <2> SUFFICES ASSUME Len(opts) = 2 PROVE c[2] = Operate(c[1], opts[2])
    OBVIOUS
  <2>1. 2 \in 0 .. Len(opts) /\ 2 - 1 = 1 /\ 2 # 0
    OBVIOUS
  <2> QED
    BY <1>4, <2>1
<1> QED
  BY <1>3, <1>5, <1>6, <1>7, <1>a, 2 \in 1 .. 2, 1 \in 1 .. 2

\* What a builder keeps of its options for the page after.
LEMMA Kept ==
    ASSUME NEW opts, Len(opts) \in 0 .. 2
    PROVE  /\ Len(opts) = 0 => Others(opts) = <<>>
           /\ Len(opts) = 1 => Others(opts) = IF opts[1].kind = "next" THEN <<>> ELSE <<opts[1]>>
           /\ Len(opts) = 2 /\ opts[1].kind # "next" /\ opts[2].kind = "next" =>
                Others(opts) = <<opts[1]>>
<1> DEFINE Is(f) == f = [i \in 0 .. Len(opts) |->
                           IF i = 0 THEN <<>>
                           ELSE IF opts[i].kind = "next" THEN f[i - 1] ELSE Append(f[i - 1], opts[i])]
           add(s, o) == IF o.kind = "next" THEN s ELSE Append(s, o)
           w == [i \in 0 .. Len(opts) |->
                   IF i = 0 THEN <<>>
                   ELSE IF i = 1 THEN add(<<>>, opts[1])
                   ELSE add(add(<<>>, opts[1]), opts[2])]
           c == CHOOSE f : Is(f)
<1>b. \A i \in 0 .. Len(opts) : i = 0 \/ (i = 1 /\ i - 1 = 0) \/ (i = 2 /\ i - 1 = 1)
  BY UpToTwo
<1>1. Is(w)
  <2>1. ASSUME NEW i \in 0 .. Len(opts)
        PROVE  w[i] = IF i = 0 THEN <<>>
                      ELSE IF opts[i].kind = "next" THEN w[i - 1] ELSE Append(w[i - 1], opts[i])
    <3>1. i = 0 \/ (i = 1 /\ i - 1 = 0) \/ (i = 2 /\ i - 1 = 1)
      BY <1>b
    <3>2. CASE i = 0
      BY <3>2
    <3>3. CASE i = 1 /\ i - 1 = 0
      <4>1. w[i] = add(<<>>, opts[1]) /\ w[i - 1] = <<>>
        <5> HIDE DEF add
        <5> QED
          BY <3>3
      <4> QED
        BY <3>3, <4>1
    <3>4. CASE i = 2 /\ i - 1 = 1
      <4>1. w[i] = add(add(<<>>, opts[1]), opts[2]) /\ w[i - 1] = add(<<>>, opts[1])
        <5> HIDE DEF add
        <5> QED
          BY <3>4
      <4> HIDE DEF w
      <4> QED
        BY <3>4, <4>1
    <3> QED
      BY <3>1, <3>2, <3>3, <3>4
  <2> QED
    BY <2>1
<1>2. Is(c)
  BY <1>1, Zenon
<1>3. Others(opts) = c[Len(opts)]
  BY Zenon DEF Others
<1> HIDE DEF c
<1>4. \A i \in 0 .. Len(opts) :
        c[i] = IF i = 0 THEN <<>>
               ELSE IF opts[i].kind = "next" THEN c[i - 1] ELSE Append(c[i - 1], opts[i])
  BY <1>2
<1>5. c[0] = <<>>
  BY <1>4
<1>6. Len(opts) \in 1 .. 2 => c[1] = add(c[0], opts[1])
  <2> SUFFICES ASSUME Len(opts) \in 1 .. 2 PROVE c[1] = add(c[0], opts[1])
    OBVIOUS
  <2>1. 1 \in 0 .. Len(opts) /\ 1 - 1 = 0 /\ 1 # 0
    OBVIOUS
  <2> QED
    BY <1>4, <2>1
<1>7. Len(opts) = 2 => c[2] = add(c[1], opts[2])
  <2> SUFFICES ASSUME Len(opts) = 2 PROVE c[2] = add(c[1], opts[2])
    OBVIOUS
  <2>1. 2 \in 0 .. Len(opts) /\ 2 - 1 = 1 /\ 2 # 0
    OBVIOUS
  <2> QED
    BY <1>4, <2>1
<1>8. Append(<<>>, opts[1]) = <<opts[1]>>
  OBVIOUS
<1> QED
  BY <1>3, <1>5, <1>6, <1>7, <1>8, 2 \in 1 .. 2, 1 \in 1 .. 2

\* The queries of a reader: their page size is never 0.
Queries == [auto : BOOLEAN, state : {None} \cup Key, size : Nat \ {0}]

\* A limit leaves the paging state alone.
LEMMA LimitOperated ==
    ASSUME NEW q \in Queries, NEW n \in Int
    PROVE  Operate(q, Limit(n)) \in Queries /\ Operate(q, Limit(n)).state = q.state
<1>1. PICK false \in BOOLEAN : false = FALSE
  OBVIOUS
<1>2. CASE n > 0
  <2>1. Operate(q, Limit(n)) = [q EXCEPT !.auto = false, !.size = n]
    BY <1>1, <1>2, Zenon DEF Operate, Limit
  <2>2. n \in Nat \ {0}
    BY <1>2
  <2>3. [q EXCEPT !.auto = false, !.size = n] \in Queries
    BY <1>1, <2>2 DEF Queries
  <2>4. [q EXCEPT !.auto = false, !.size = n].state = q.state
    BY <1>1, <2>2 DEF Queries
  <2> QED
    BY <2>1, <2>3, <2>4
<1>3. CASE ~(n > 0)
  BY <1>3 DEF Operate, Limit
<1> QED
  BY <1>2, <1>3

LEMMA NextOperated ==
    ASSUME NEW q \in Queries, NEW next \in {None} \cup Key
    PROVE  /\ Operate(q, NextTo(next)) \in Queries
           /\ Operate(q, NextTo(next)).state = IF next = None THEN q.state ELSE next
<1>1. PICK false \in BOOLEAN : false = FALSE
  OBVIOUS
<1>2. NextTo(next).kind # "limit" /\ NextTo(next).value = next
  BY DEF NextTo
<1>3. CASE next # None
  <2>1. Operate(q, NextTo(next)) = [q EXCEPT !.auto = false, !.state = next]
    BY <1>1, <1>2, <1>3, Zenon DEF Operate
  <2>2. [q EXCEPT !.auto = false, !.state = next] \in Queries
    BY <1>1 DEF Queries
  <2>3. [q EXCEPT !.auto = false, !.state = next].state = next
    BY <1>1 DEF Queries
  <2> QED
    BY <1>3, <2>1, <2>2, <2>3
<1>4. CASE next = None
  BY <1>2, <1>4 DEF Operate
<1> QED
  BY <1>3, <1>4

LEMMA QueryBegins == Query \in Queries /\ Query.state = None
<1>1. IsFiniteSet(Key)
  BY KeyAssumption
<1>2. Cardinality(Key) + 1 \in Nat \ {0}
  BY <1>1, FS_CardinalityType
<1>3. PICK true \in BOOLEAN : true = TRUE
  OBVIOUS
<1>4. Query = [auto |-> true, state |-> None, size |-> Cardinality(Key) + 1]
  BY <1>3, Zenon DEF Query
<1>5. [auto |-> true, state |-> None, size |-> Cardinality(Key) + 1] \in Queries
  BY <1>2 DEF Queries
<1> QED
  BY <1>4, <1>5

\* The query of a page begins where the page before it has ended.
Begins(opts, next) == PrepareQuery(opts) \in Queries /\ PrepareQuery(opts).state = next

LEMMA DefaultBegins ==
    ASSUME NEW next \in {None} \cup Key, NEW n \in Int
    PROVE  Begins(DefaultOptions(next, n), next)
<1> DEFINE opts == DefaultOptions(next, n)
<1>1. Len(opts) = 2 /\ opts[1] = NextTo(next) /\ opts[2] = Limit(n)
  BY DEF DefaultOptions
<1>2. PrepareQuery(opts) = Operate(Operate(Query, NextTo(next)), Limit(n))
  <2> HIDE DEF opts
  <2>1. Len(opts) \in 0 .. 2
    BY <1>1
  <2> QED
    BY <1>1, <2>1, Prepared
<1>3. Operate(Query, NextTo(next)) \in Queries /\ Operate(Query, NextTo(next)).state = next
  BY QueryBegins, NextOperated
<1> QED
  BY <1>2, <1>3, LimitOperated DEF Begins

LEMMA BuilderBegins ==
    ASSUME NEW next \in {None} \cup Key, NEW n \in Int
    PROVE  /\ Begins(BuilderOptions(next, n), next)
           /\ Others(BuilderOptions(next, n)) = BuilderOptions(None, n)
<1> DEFINE opts == BuilderOptions(next, n)
<1>0. Limit(n).kind # "next" /\ NextTo(next).kind = "next"
  BY DEF Limit, NextTo
<1>1. CASE n > 0 /\ next # None
  <2>1. opts = Append(<<Limit(n)>>, NextTo(next))
    BY <1>1 DEF BuilderOptions
  <2>2. Len(opts) = 2 /\ opts[1] = Limit(n) /\ opts[2] = NextTo(next) /\ Len(opts) \in 0 .. 2
    BY <2>1
  <2>3. PrepareQuery(opts) = Operate(Operate(Query, Limit(n)), NextTo(next))
    <3> HIDE DEF opts
    <3> QED
      BY <2>2, Prepared
  <2>4. Others(opts) = <<Limit(n)>>
    <3> HIDE DEF opts
    <3> QED
      BY <1>0, <2>2, Kept
  <2>5. Operate(Query, Limit(n)) \in Queries
    BY QueryBegins, LimitOperated
  <2> QED
    BY <1>1, <2>3, <2>4, <2>5, NextOperated DEF Begins, BuilderOptions
<1>2. CASE n > 0 /\ next = None
  <2>1. opts = <<Limit(n)>>
    BY <1>2 DEF BuilderOptions
  <2>2. Len(opts) = 1 /\ opts[1] = Limit(n) /\ Len(opts) \in 0 .. 2
    BY <2>1
  <2>3. PrepareQuery(opts) = Operate(Query, Limit(n)) /\ Others(opts) = <<Limit(n)>>
    <3> HIDE DEF opts
    <3> QED
      BY <1>0, <2>2, Prepared, Kept
  <2> QED
    BY <1>2, <2>3, QueryBegins, LimitOperated DEF Begins, BuilderOptions
<1>3. CASE ~(n > 0) /\ next # None
  <2>1. opts = <<NextTo(next)>>
    BY <1>3 DEF BuilderOptions
  <2>2. Len(opts) = 1 /\ opts[1] = NextTo(next) /\ Len(opts) \in 0 .. 2
    BY <2>1
  <2>3. PrepareQuery(opts) = Operate(Query, NextTo(next)) /\ Others(opts) = <<>>
    <3> HIDE DEF opts
    <3> QED
      BY <1>0, <2>2, Prepared, Kept
  <2> QED
    BY <1>3, <2>3, QueryBegins, NextOperated DEF Begins, BuilderOptions
<1>4. CASE ~(n > 0) /\ next = None
  <2>1. opts = <<>>
    BY <1>4 DEF BuilderOptions
  <2>2. Len(opts) = 0 /\ Len(opts) \in 0 .. 2
    BY <2>1
  <2>3. PrepareQuery(opts) = Query /\ Others(opts) = <<>>
    <3> HIDE DEF opts
    <3> QED
      BY <2>2, Prepared, Kept
  <2> QED
    BY <1>4, <2>3, QueryBegins DEF Begins, BuilderOptions
<1> QED
  BY <1>1, <1>2, <1>3, <1>4

-----------------------------------------------------------------------------
(* Pages                                                                   *)

LEMMA KeyPlace == \A k \in Key : k[2] \in Nat
<1>1. \A k \in Nat \X (Nat \ {0}) : k[2] \in Nat
  OBVIOUS
<1> QED
  BY <1>1, KeyAssumption

\* The least of some natural numbers.
LEMMA Least ==
    ASSUME NEW S \in SUBSET Nat, S # {}
    PROVE  \E i \in S : \A j \in S : i <= j
<1>1. \E R : IsWellFoundedOn(R, Nat) /\ \A i, j \in Nat : <<j, i>> \in R <=> j < i
  <2>1. IsWellFoundedOn(OpToRel(<, Nat), Nat)
    BY NatLessThanWellFounded
  <2>2. \A i, j \in Nat : <<j, i>> \in OpToRel(<, Nat) <=> j < i
    BY DEF OpToRel
  <2> QED
    BY <2>1, <2>2
<1>2. PICK R : IsWellFoundedOn(R, Nat) /\ \A i, j \in Nat : <<j, i>> \in R <=> j < i
  BY <1>1
<1>3. PICK i \in S : \A j \in S : ~ (<<j, i>> \in R)
  BY <1>2, WFMin
<1>4. \A j \in S : i \in Nat /\ j \in Nat /\ ~ (j < i)
  BY <1>2, <1>3
<1> QED
  BY <1>4

\* The rows of a partition are finitely many.
LEMMA KeysFinite ==
    ASSUME NEW ks \in SUBSET Key
    PROVE  IsFiniteSet(ks) /\ Cardinality(ks) \in Nat
<1>1. IsFiniteSet(Key)
  BY KeyAssumption
<1>2. IsFiniteSet(ks)
  BY <1>1, FS_Subset
<1> QED
  BY <1>2, FS_CardinalityType

\* A page that is not full holds all the rows there are.
LEMMA ShortPage ==
    ASSUME NEW n \in Nat, NEW ks \in SUBSET Key, Cardinality(FirstOf(n, ks)) < n
    PROVE  FirstOf(n, ks) = ks
<1> DEFINE rest == ks \ FirstOf(n, ks)
           before(k) == {j \in ks : j[2] < k[2]}
<1> SUFFICES ASSUME rest # {} PROVE FALSE
  BY DEF FirstOf
<1>1. PICK i \in {k[2] : k \in rest} : \A j \in {k[2] : k \in rest} : i <= j
  <2>1. {k[2] : k \in rest} \in SUBSET Nat /\ {k[2] : k \in rest} # {}
    BY KeyPlace
  <2> QED
    BY <2>1, Least
<1>2. PICK k \in rest : i = k[2]
  BY <1>1
<1>3. before(k) \in SUBSET FirstOf(n, ks)
  BY <1>1, <1>2, KeyPlace
<1>4. ~(Cardinality(before(k)) < n)
  BY <1>2 DEF FirstOf
<1>5. FirstOf(n, ks) \in SUBSET Key /\ before(k) \in SUBSET Key
  BY DEF FirstOf
<1> HIDE DEF before
<1>6. /\ Cardinality(before(k)) <= Cardinality(FirstOf(n, ks))
      /\ Cardinality(before(k)) \in Nat /\ Cardinality(FirstOf(n, ks)) \in Nat
  BY <1>3, <1>5, KeysFinite, FS_Subset
<1> QED
  BY <1>4, <1>6

\* A page that is not empty has a last row.
LEMMA LastRow ==
    ASSUME NEW ks \in SUBSET Key, ks # {}
    PROVE  LastOf(ks) \in ks /\ \A j \in ks : j[2] <= LastOf(ks)[2]
<1> DEFINE above(k) == {j \in ks : k[2] < j[2]}
           S == {Cardinality(above(k)) : k \in ks}
<1>1. \A k \in ks : above(k) \in SUBSET Key
  OBVIOUS
<1>2. S \in SUBSET Nat /\ S # {}
  <2> HIDE DEF above
  <2> QED
    BY <1>1, KeysFinite
<1>3. PICK i \in S : \A j \in S : i <= j
  <2> HIDE DEF S
  <2> QED
    BY <1>2, Least
<1>4. PICK k \in ks : i = Cardinality(above(k))
  BY <1>3
<1>5. ASSUME NEW j \in ks, k[2] < j[2] PROVE FALSE
  <2>1. above(j) \in SUBSET above(k) /\ j \in above(k) /\ j \notin above(j)
    BY <1>5, KeyPlace
  <2>2. Cardinality(above(k)) <= Cardinality(above(j))
    BY <1>3, <1>4
  <2> HIDE DEF above
  <2>3. /\ IsFiniteSet(above(k)) /\ Cardinality(above(k)) \in Nat /\ Cardinality(above(j)) \in Nat
        /\ Cardinality(above(j)) <= Cardinality(above(k))
        /\ Cardinality(above(j)) = Cardinality(above(k)) => above(j) = above(k)
    <3>1. IsFiniteSet(above(k)) /\ Cardinality(above(k)) \in Nat /\ Cardinality(above(j)) \in Nat
      BY <1>1, KeysFinite
    <3>2. /\ Cardinality(above(j)) <= Cardinality(above(k))
          /\ Cardinality(above(k)) = Cardinality(above(j)) => above(k) = above(j)
      BY <2>1, <3>1, FS_Subset
    <3> QED
      BY <3>1, <3>2
  <2> QED
    BY <2>1, <2>2, <2>3
<1>6. \A j \in ks : j[2] <= k[2]
  BY <1>5, KeyPlace
<1> QED
  BY <1>6 DEF LastOf

LEMMA RowsAreKeys == Rows \in SUBSET Key
BY DEF Rows

\* With a row, a page holds every row before it.
LEMMA FirstAreFirst ==
    ASSUME NEW n \in Nat, NEW ks \in SUBSET Key, NEW l \in FirstOf(n, ks),
           NEW k \in ks, k[2] <= l[2]
    PROVE  k \in FirstOf(n, ks)
<1> DEFINE before(i) == {j \in ks : j[2] < i[2]}
<1>1. before(k) \in SUBSET before(l)
  <2>1. l \in ks
    BY DEF FirstOf
  <2> QED
    BY <2>1, KeyPlace
<1>2. before(k) \in SUBSET Key /\ before(l) \in SUBSET Key
  OBVIOUS
<1>3. Cardinality(before(l)) < n
  BY DEF FirstOf
<1>4. k \in FirstOf(n, ks) <=> Cardinality(before(k)) < n
  BY DEF FirstOf
<1> HIDE DEF before
<1>5. /\ Cardinality(before(k)) <= Cardinality(before(l))
      /\ Cardinality(before(k)) \in Nat /\ Cardinality(before(l)) \in Nat
  BY <1>1, <1>2, KeysFinite, FS_Subset
<1> QED
  BY <1>3, <1>4, <1>5

\* A page without a state for the next holds the rest of the partition; one with
\* a state holds the rest up to the row of that state.
LEMMA PageIsAPrefix ==
    ASSUME NEW q \in Queries, NEW part, NEW p \in Page(q, part)
    PROVE  LET rest == After(part, q.state) IN
           /\ p.rows \in SUBSET rest /\ p.next \in {None} \cup rest
           /\ p.next = None => p.rows = rest
           /\ p.next # None =>
                \A k \in rest : k \in p.rows <=> k[2] <= p.next[2]
<1> DEFINE rest == After(part, q.state)
           page == FirstOf(q.size, rest)
<1>1. rest \in SUBSET Key /\ page \in SUBSET rest
  BY RowsAreKeys DEF After, FirstOf
<1>2. q.size \in Nat /\ q.size # 0
  BY DEF Queries
<1>3. CASE q.auto
  <2>1. p.rows = rest /\ p.next = None
    BY <1>3 DEF Page
  <2> QED
    BY <2>1
<1>4. CASE ~q.auto /\ Cardinality(page) < q.size
  <2>1. p.rows = page /\ p.next = None
    BY <1>4 DEF Page
  <2>2. page = rest
    <3> HIDE DEF rest
    <3> QED
      BY <1>1, <1>2, <1>4, ShortPage
  <2> QED
    BY <2>1, <2>2
<1>5. CASE ~q.auto /\ ~(Cardinality(page) < q.size)
  <2>2. page # {}
    <3>1. page = {} => Cardinality(page) = 0
      BY FS_EmptySet
    <3> QED
      BY <1>2, <1>5, <3>1
  <2>3. page \in SUBSET Key
    BY <1>1
  <2>4. LastOf(page) \in page /\ \A j \in page : j[2] <= LastOf(page)[2]
    <3> HIDE DEF page
    <3> QED
      BY <2>2, <2>3, LastRow
  <2>n. LastOf(page) # None
    BY <2>3, <2>4, KeyAssumption
  <2>1. /\ p.rows = page /\ p.next \in {None, LastOf(page)}
        /\ p.next = None => page = rest
    <3>1. /\ p.rows = page
          /\ p.next \in IF page = rest THEN {None, LastOf(page)} ELSE {LastOf(page)}
      BY <1>5 DEF Page
    <3> HIDE DEF page, rest
    <3> QED
      BY <2>n, <3>1
  <2>5. \A k \in rest : k[2] <= LastOf(page)[2] => k \in page
    <3> SUFFICES ASSUME NEW k \in rest, k[2] <= LastOf(page)[2] PROVE k \in page
      OBVIOUS
    <3> HIDE DEF rest
    <3> QED
      BY <1>1, <1>2, <2>4, FirstAreFirst
  <2>6. p.next # None => p.next = LastOf(page)
    BY <2>1
  <2> HIDE DEF rest, page
  <2>7. p.next \in {None} \cup rest
    BY <1>1, <2>1, <2>4
  <2>8. p.next # None => \A k \in rest : k \in p.rows <=> k[2] <= p.next[2]
    BY <2>1, <2>4, <2>5, <2>6
  <2> QED
    BY <1>1, <2>1, <2>7, <2>8 DEF rest
<1> QED
  BY <1>3, <1>4, <1>5

-----------------------------------------------------------------------------
(* Readers                                                                 *)

ByDefault == {DefaultOptions(next, s.limit) : next \in {None} \cup Key, s \in Shapes}
ByBuilder == {BuilderOptions(next, s.limit) : next \in {None} \cup Key, s \in Shapes}

Opts == {<<>>} \cup ByDefault \cup ByBuilder

LEMMA OptsHold ==
    ASSUME NEW next \in {None} \cup Key, NEW s \in Shapes
    PROVE  DefaultOptions(next, s.limit) \in Opts /\ BuilderOptions(next, s.limit) \in Opts
<1>1. DefaultOptions(next, s.limit) \in ByDefault
  BY DEF ByDefault
<1>2. BuilderOptions(next, s.limit) \in ByBuilder
  BY DEF ByBuilder
<1> QED
  BY <1>1, <1>2 DEF Opts

ReaderType ==
    [shape : {None} \cup Shapes, part : Nat, opts : Opts, next : {None} \cup Key,
     got : SUBSET Key, twice : BOOLEAN, stable : SUBSET Key, bad : BOOLEAN,
     phase : {"idle", "reading", "end"}]

\* Under way, a reader has the rows that were there all the time up to its paging
\* state, and none after it; what it goes on from is the query it began with.
Reads(x) ==
    /\ x \in ReaderType
    /\ ~x.twice
    /\ \A k \in x.stable : k[1] = x.part
    /\ x.phase = "reading" =>
        /\ x.shape \in Shapes
        /\ x.next = None => x.got = {}
        /\ x.next # None =>
            /\ \A k \in x.got : k[2] <= x.next[2]
            /\ ~x.bad => \A k \in x.stable : k[2] <= x.next[2] => k \in x.got
            /\ x.shape.by = "result" => Others(x.opts) = BuilderOptions(None, x.shape.limit)
    /\ x.phase = "end" /\ ~x.bad => x.stable \subseteq x.got

ReadersInv ==
    /\ reader \in [Reader -> ReaderType]
    /\ \A r \in Reader : Reads(reader[r]) /\ reader[r].stable \subseteq Rows

LEMMA InitReaders == Init => ReadersInv
<1> SUFFICES ASSUME Init PROVE ReadersInv
  OBVIOUS
<1>1. NotReading \in ReaderType
  <2>1. <<>> \in Opts
    BY DEF Opts
  <2> HIDE DEF Opts
  <2> QED
    BY <2>1 DEF NotReading, ReaderType
<1>2. Reads(NotReading) /\ NotReading.stable = {}
  BY <1>1 DEF NotReading, Reads
<1> QED
  BY <1>1, <1>2 DEF Init, ReadersInv

\* A write takes the rows it removes from those a reader must find.
LEMMA StoreReaders ==
    ASSUME ReadersInv, NEW new, Store(new)
    PROVE  ReadersInv'
<1>1. ASSUME NEW r \in Reader
      PROVE  /\ reader'[r] \in ReaderType /\ Reads(reader'[r])
             /\ reader'[r].stable \subseteq Rows'
  <2> DEFINE x == reader[r]
             y == reader'[r]
             stable == {k \in x.stable : new[k] # None}
  <2>1. x \in ReaderType /\ Reads(x) /\ x.stable \subseteq Rows
    BY DEF ReadersInv
  <2>2. y = [x EXCEPT !.stable = stable]
    BY DEF Store
  <2>3. stable \in SUBSET x.stable
    OBVIOUS
  <2>a. stable \subseteq Rows'
    BY <2>1 DEF Rows, Store
  <2> HIDE DEF x, y, stable
  <2>4. x.stable \in SUBSET Key
    BY <2>1 DEF ReaderType
  <2>5. /\ y \in ReaderType /\ y.stable = stable
        /\ y.shape = x.shape /\ y.part = x.part /\ y.opts = x.opts
        /\ y.next = x.next /\ y.got = x.got /\ y.phase = x.phase
    BY <2>1, <2>2, <2>3, <2>4 DEF ReaderType
  <2>6. y.twice = x.twice /\ y.bad = x.bad
    BY <2>1, <2>2 DEF ReaderType
  <2>7. Reads(y)
    BY <2>1, <2>3, <2>5, <2>6 DEF Reads
  <2> QED
    BY <2>a, <2>5, <2>7 DEF y
<1>2. reader' \in [Reader -> ReaderType]
  BY <1>1 DEF Store
<1> QED
  BY <1>1, <1>2 DEF ReadersInv

\* A step that changes one reader.
LEMMA OneReader ==
    ASSUME ReadersInv, NEW r \in Reader, NEW y, reader' = [reader EXCEPT ![r] = y],
           table' = table, Reads(y), y.stable \subseteq Rows
    PROVE  ReadersInv'
<1>1. Rows' = Rows
  BY DEF Rows
<1>2. y \in ReaderType
  BY DEF Reads
<1>3. \A o \in Reader : reader'[o] = IF o = r THEN y ELSE reader[o]
  BY DEF ReadersInv
<1>4. reader' \in [Reader -> ReaderType]
  BY <1>2 DEF ReadersInv
<1>5. \A o \in Reader : Reads(reader'[o]) /\ reader'[o].stable \subseteq Rows
  BY <1>3 DEF ReadersInv
<1> QED
  BY <1>1, <1>4, <1>5 DEF ReadersInv

LEMMA OpenReaders ==
    ASSUME ReadersInv, NEW r \in Reader, NEW s \in Shapes, NEW k \in Key, Open(r, s, k[1])
    PROVE  ReadersInv'
<1> DEFINE stable == {j \in Rows : j[1] = k[1]}
           y == [NotReading EXCEPT !.phase = "reading", !.shape = s, !.part = k[1],
                                   !.stable = stable]
<1>1. reader' = [reader EXCEPT ![r] = y] /\ table' = table
  BY DEF Open
<1>2. k[1] \in Nat
  <2>1. \A j \in Nat \X (Nat \ {0}) : j[1] \in Nat
    OBVIOUS
  <2> QED
    BY <2>1, KeyAssumption
<1>3. stable \in SUBSET Key /\ (\A j \in stable : j[1] = k[1]) /\ stable \subseteq Rows
  BY RowsAreKeys
<1> HIDE DEF stable
<1>4. /\ y.phase = "reading" /\ y.shape = s /\ y.part = k[1] /\ y.stable = stable
      /\ y.next = None /\ y.got = {} /\ ~y.twice
  BY DEF NotReading
<1>5. y \in ReaderType
  <2>1. <<>> \in Opts
    BY DEF Opts
  <2> HIDE DEF Opts
  <2> QED
    BY <1>2, <1>3, <2>1 DEF NotReading, ReaderType
<1>6. Reads(y)
  <2> HIDE DEF y
  <2> QED
    BY <1>3, <1>4, <1>5 DEF Reads
<1> HIDE DEF y
<1> QED
  BY <1>1, <1>3, <1>4, <1>6, OneReader

\* Whatever way a reader asks for its pages, the next one begins at its paging
\* state, and a result goes on with the limit it began with.
LEMMA OptionsBegin ==
    ASSUME NEW r \in Reader, Reads(reader[r]), reader[r].phase = "reading"
    PROVE  /\ Options(r) \in Opts
           /\ Begins(Options(r), reader[r].next)
           /\ reader[r].shape.by = "result" =>
                Others(Options(r)) = BuilderOptions(None, reader[r].shape.limit)
<1> DEFINE s == reader[r].shape
           next == reader[r].next
<1>1. s \in Shapes /\ next \in {None} \cup Key /\ s.limit \in Int
  BY ShapeAssumption DEF Reads, ReaderType
<1>2. CASE s.by = "token"
  <2>1. Options(r) = DefaultOptions(next, s.limit)
    BY <1>2 DEF Options
  <2> HIDE DEF s, next
  <2>2. DefaultOptions(next, s.limit) \in Opts
    BY <1>1, OptsHold
  <2> QED
    BY <1>1, <1>2, <2>1, <2>2, DefaultBegins DEF s, next
<1>3. CASE s.by # "token"
  <2>1. Options(r) = BuilderOptions(next, s.limit)
    <3>1. CASE s.by = "result" /\ next # None
      <4>1. Others(reader[r].opts) = BuilderOptions(None, s.limit)
        BY <3>1 DEF Reads
      <4>2. Options(r) = Append(BuilderOptions(None, s.limit), NextTo(next))
        BY <1>3, <3>1, <4>1 DEF Options, NextOptions
      <4> QED
        BY <3>1, <4>2 DEF BuilderOptions
    <3>2. CASE ~(s.by = "result" /\ next # None)
      BY <1>3, <3>2 DEF Options
    <3> QED
      BY <3>1, <3>2
  <2> HIDE DEF s, next
  <2>2. BuilderOptions(next, s.limit) \in Opts
    BY <1>1, OptsHold
  <2> QED
    BY <1>1, <2>1, <2>2, BuilderBegins DEF s, next
<1> QED
  BY <1>2, <1>3

\* What a page makes of a reader.
Taking(x, opts, rows, next, bad) ==
    [x EXCEPT !.opts = opts, !.next = next, !.got = @ \cup rows,
              !.twice = @ \/ rows \cap x.got # {}, !.bad = @ \/ bad,
              !.phase = IF next = None THEN "end" ELSE "reading"]

\* The rows and the state that a page may give a reader of which rest is ahead; if
\* nothing went wrong, the rows are all of rest up to that state.
Fits(x, rest, rows, next, bad) ==
    /\ rest \in SUBSET Key /\ rows \in SUBSET rest /\ next \in {None} \cup rest
    /\ bad \in BOOLEAN
    /\ x.next # None => \A k \in rest : k[2] > x.next[2]
    /\ next # None => \A k \in rows : k[2] <= next[2]
    /\ ~bad =>
        /\ \A k \in x.stable : k \in rest \/ (x.next # None /\ k[2] <= x.next[2])
        /\ next = None => rows = rest
        /\ next # None => \A k \in rest : k[2] <= next[2] => k \in rows

LEMMA Takes ==
    ASSUME NEW x, NEW rest, NEW rows, NEW next, NEW bad, NEW opts \in Opts,
           Reads(x), x.phase = "reading", Fits(x, rest, rows, next, bad),
           x.shape.by = "result" => Others(opts) = BuilderOptions(None, x.shape.limit)
    PROVE  /\ Reads(Taking(x, opts, rows, next, bad))
           /\ Taking(x, opts, rows, next, bad).stable = x.stable
<1> DEFINE y == Taking(x, opts, rows, next, bad)
<1>0. /\ rest \in SUBSET Key /\ rows \in SUBSET rest /\ next \in {None} \cup rest
      /\ bad \in BOOLEAN
      /\ x.next # None => \A k \in rest : k[2] > x.next[2]
      /\ next # None => \A k \in rows : k[2] <= next[2]
      /\ ~bad =>
          /\ \A k \in x.stable : k \in rest \/ (x.next # None /\ k[2] <= x.next[2])
          /\ next = None => rows = rest
          /\ next # None => \A k \in rest : k[2] <= next[2] => k \in rows
  BY DEF Fits
<1>1. /\ x \in ReaderType /\ ~x.twice /\ x.got \in SUBSET Key /\ x.stable \in SUBSET Key
      /\ x.bad \in BOOLEAN /\ x.shape \in Shapes /\ x.next \in {None} \cup Key
  BY DEF Reads, ReaderType
<1>2. rows \cap x.got = {}
  <2> SUFFICES ASSUME NEW k \in rows, k \in x.got PROVE FALSE
    OBVIOUS
  <2>1. x.next # None /\ k[2] <= x.next[2]
    BY DEF Reads
  <2>2. k \in rest /\ k \in Key /\ x.next \in Key
    BY <1>0, <1>1, <2>1
  <2>3. k[2] \in Nat /\ x.next[2] \in Nat /\ k[2] > x.next[2]
    BY <1>0, <2>1, <2>2, KeyPlace
  <2> QED
    BY <2>1, <2>3
<1>3. PICK got \in SUBSET Key : got = x.got \cup rows
  BY <1>0, <1>1
<1>4. PICK twice \in BOOLEAN : twice = (x.twice \/ rows \cap x.got # {})
  BY <1>1
<1>5. PICK worse \in BOOLEAN : worse = (x.bad \/ bad)
  BY <1>0, <1>1
<1>6. PICK phase \in {"reading", "end"} : phase = IF next = None THEN "end" ELSE "reading"
  OBVIOUS
<1>7. y = [x EXCEPT !.opts = opts, !.next = next, !.got = got,
                    !.twice = twice, !.bad = worse, !.phase = phase]
  BY <1>3, <1>4, <1>5, <1>6 DEF Taking
<1>8. /\ y \in ReaderType /\ y.shape = x.shape /\ y.part = x.part
      /\ y.opts = opts /\ y.next = next /\ y.got = got /\ y.twice = twice
      /\ y.stable = x.stable /\ y.bad = worse /\ y.phase = phase
  <2>1. next \in {None} \cup Key
    BY <1>0
  <2> QED
    BY <1>1, <1>7, <2>1 DEF ReaderType
<1>9. ~y.twice
  BY <1>1, <1>2, <1>4, <1>8
<1>10. next # None => \A k \in got : k[2] <= next[2]
  <2> SUFFICES ASSUME next # None, NEW k \in got PROVE k[2] <= next[2]
    OBVIOUS
  <2>1. CASE k \in rows
    BY <1>0, <2>1
  <2>2. CASE k \in x.got
    <3>1. x.next # None /\ k[2] <= x.next[2] /\ x.next \in Key /\ k \in Key /\ next \in Key
      BY <1>0, <1>1, <2>2 DEF Reads
    <3>2. next[2] > x.next[2]
      BY <1>0, <3>1
    <3>3. k[2] \in Nat /\ x.next[2] \in Nat /\ next[2] \in Nat
      BY <3>1, KeyPlace
    <3> QED
      BY <3>1, <3>2, <3>3
  <2> QED
    BY <1>3, <2>1, <2>2
<1>11. ASSUME ~worse, NEW k \in x.stable, next # None => k[2] <= next[2]
       PROVE  k \in got
  <2>1. ~x.bad /\ ~bad
    BY <1>5, <1>11
  <2>2. CASE k \in rest
    BY <1>0, <1>3, <1>11, <2>1, <2>2
  <2>3. CASE x.next # None /\ k[2] <= x.next[2]
    BY <1>3, <2>1, <2>3 DEF Reads
  <2> QED
    BY <1>0, <2>1, <2>2, <2>3
<1> HIDE DEF y
<1>12. next = None => y.phase = "end"
  BY <1>6, <1>8
<1>13. y.phase = "end" => next = None
  BY <1>6, <1>8
<1>14. \A k \in x.stable : k[1] = x.part
  BY DEF Reads
<1>15. y.phase = "end" /\ ~y.bad => y.stable \subseteq y.got
  BY <1>8, <1>11, <1>13
<1>16. y.next # None => (~y.bad => \A k \in y.stable : k[2] <= y.next[2] => k \in y.got)
  BY <1>8, <1>11
<1>17. y.phase = "reading" => y.next # None
  BY <1>8, <1>12
<1>18. Reads(y)
  BY <1>1, <1>8, <1>9, <1>10, <1>14, <1>15, <1>16, <1>17 DEF Reads
<1> QED
  BY <1>8, <1>18 DEF y

LEMMA FetchReaders ==
    ASSUME ReadersInv, NEW r \in Reader, Fetch(r)
    PROVE  ReadersInv'
<1> DEFINE x == reader[r]
           opts == Options(r)
           rest == After(x.part, x.next)
<1>1. Reads(x) /\ x.phase = "reading" /\ x.stable \subseteq Rows /\ table' = table
  BY DEF ReadersInv, Fetch
<1>2. /\ opts \in Opts /\ Begins(opts, x.next)
      /\ x.shape.by = "result" => Others(opts) = BuilderOptions(None, x.shape.limit)
  BY <1>1, OptionsBegin
<1>3. x.next # None => \A k \in rest : k[2] > x.next[2]
  BY RowsAreKeys DEF After
<1>4. rest \in SUBSET Key
  BY RowsAreKeys DEF After
<1>5. \A k \in x.stable : k \in rest \/ (x.next # None /\ k[2] <= x.next[2])
  <2> SUFFICES ASSUME NEW k \in x.stable, k \notin rest
               PROVE  x.next # None /\ k[2] <= x.next[2]
    OBVIOUS
  <2>1. k \in Rows /\ k[1] = x.part /\ x.next \in {None} \cup Key
    BY <1>1 DEF Reads, ReaderType
  <2>2. x.next # None /\ ~(k[2] > x.next[2])
    BY <2>1 DEF After
  <2>3. k[2] \in Nat /\ x.next[2] \in Nat
    BY <2>1, <2>2, RowsAreKeys, KeyPlace
  <2> QED
    BY <2>2, <2>3
<1>6. PrepareQuery(opts) \in Queries /\ PrepareQuery(opts).state = x.next
  BY <1>2 DEF Begins
<1> DEFINE Took(rows, next, bad) ==
             reader' = [reader EXCEPT ![r] = [reader[r] EXCEPT
                !.opts = opts, !.next = next, !.got = @ \cup rows,
                !.twice = @ \/ rows \cap reader[r].got # {}, !.bad = @ \/ bad,
                !.phase = IF next = None THEN "end" ELSE "reading"]]
<1>7. \/ \E p \in Page(PrepareQuery(opts), x.part) :
           \/ Took(p.rows, p.next, FALSE)
           \/ \E n \in 0 .. Cardinality(p.rows) - 1 : Took(FirstOf(n, p.rows), p.next, TRUE)
      \/ Took({}, None, TRUE)
  BY DEF Fetch
<1>t. ASSUME NEW rows, NEW next, NEW bad, Took(rows, next, bad)
      PROVE  reader' = [reader EXCEPT ![r] = Taking(x, opts, rows, next, bad)]
  BY <1>t DEF Taking
<1> HIDE DEF Took
<1> HIDE DEF x, opts
<1>8. ASSUME NEW p \in Page(PrepareQuery(opts), x.part)
      PROVE  /\ p.rows \in SUBSET rest /\ p.next \in {None} \cup rest
             /\ p.next = None => p.rows = rest
             /\ p.next # None => \A k \in rest : k \in p.rows <=> k[2] <= p.next[2]
  BY <1>6, PageIsAPrefix
<1> HIDE DEF rest
<1>9. ASSUME NEW rows, NEW next, NEW bad, Took(rows, next, bad), Fits(x, rest, rows, next, bad)
      PROVE  ReadersInv'
  <2>1. PICK y : y = Taking(x, opts, rows, next, bad)
    OBVIOUS
  <2>2. Reads(y) /\ y.stable = x.stable
    BY <1>1, <1>2, <1>9, <2>1, Takes
  <2>3. reader' = [reader EXCEPT ![r] = y]
    BY <1>9, <1>t, <2>1
  <2> QED
    BY <1>1, <2>2, <2>3, OneReader
<1>10. CASE Took({}, None, TRUE)
  <2>1. Fits(x, rest, {}, None, TRUE)
    BY <1>3, <1>4 DEF Fits
  <2> QED
    BY <1>9, <1>10, <2>1
<1>11. ASSUME NEW p \in Page(PrepareQuery(opts), x.part), Took(p.rows, p.next, FALSE)
       PROVE  ReadersInv'
  <2>1. Fits(x, rest, p.rows, p.next, FALSE)
    BY <1>3, <1>4, <1>5, <1>8 DEF Fits
  <2> QED
    BY <1>9, <1>11, <2>1
<1>12. ASSUME NEW p \in Page(PrepareQuery(opts), x.part),
              NEW n \in 0 .. Cardinality(p.rows) - 1, Took(FirstOf(n, p.rows), p.next, TRUE)
       PROVE  ReadersInv'
  <2>1. FirstOf(n, p.rows) \in SUBSET p.rows
    BY DEF FirstOf
  <2>2. Fits(x, rest, FirstOf(n, p.rows), p.next, TRUE)
    BY <1>3, <1>4, <1>8, <2>1 DEF Fits
  <2> QED
    BY <1>9, <1>12, <2>2
<1> QED
  BY <1>7, <1>10, <1>11, <1>12

LEMMA NextReaders == ReadersInv /\ [Next]_vars => ReadersInv'
<1> SUFFICES ASSUME ReadersInv, [Next]_vars PROVE ReadersInv'
  OBVIOUS
<1>1. ASSUME UNCHANGED <<table, reader>> PROVE ReadersInv'
  BY <1>1 DEF ReadersInv, Rows
<1>2. ASSUME NEW c \in Caller, NEW new \in Calls, Begin(c, new) PROVE ReadersInv'
  BY <1>1, <1>2 DEF Begin
<1>3. ASSUME NEW c \in Caller, Statement(c) PROVE ReadersInv'
  <2>1. (\E new : Store(new)) \/ UNCHANGED <<table, reader>>
    BY <1>3 DEF Statement, Executed, Unanswered
  <2> QED
    BY <1>1, <2>1, StoreReaders
<1>4. ASSUME NEW c \in Caller, PostHook(c) PROVE ReadersInv'
  BY <1>1, <1>4 DEF PostHook
<1>5. ASSUME NEW k \in Key, Expire(k) PROVE ReadersInv'
  BY <1>5, StoreReaders DEF Expire
<1>6. ASSUME NEW r \in Reader, NEW s \in Shapes, NEW k \in Key, Open(r, s, k[1])
      PROVE  ReadersInv'
  BY <1>6, OpenReaders
<1>7. ASSUME NEW r \in Reader, Fetch(r) PROVE ReadersInv'
  BY <1>7, FetchReaders
<1>8. CASE UNCHANGED vars
  BY <1>1, <1>8 DEF vars
<1> QED
  BY <1>2, <1>3, <1>4, <1>5, <1>6, <1>7, <1>8 DEF Next

-----------------------------------------------------------------------------
(* What the specification guarantees                                       *)

IndInv == CallsInv /\ ReadersInv

\* CallsInv and ReadersInv hold in every state: what a call has done and told at
\* each of its steps, and what a reader has of its partition at each page.
THEOREM Inductive == Spec => []IndInv
<1>1. Init => IndInv
  BY InitCalls, InitReaders DEF IndInv
<1>2. IndInv /\ [Next]_vars => IndInv'
  BY NextCalls, NextReaders DEF IndInv
<1> QED
  BY <1>1, <1>2, PTL DEF Spec

\* The table, the calls and the readers keep their types, and a call that has not
\* returned has told nobody.
THEOREM TypeCorrect == Spec => []TypeOK
<1>1. IndInv => TypeOK
  BY DEF IndInv, CallsInv, ReadersInv, TypeOK, CallType, ReaderType, Cells, Answers, Progress
<1> QED
  BY <1>1, Inductive, PTL

\* UniqueCreate, Save and Delete return nil only if their statement took effect,
\* and an error only if it did not, an answer was lost or a post hook failed.
THEOREM CallersAreTold == Spec => []Told
<1>1. IndInv => Told
  BY DEF IndInv, CallsInv
<1> QED
  BY <1>1, Inductive, PTL

\* A row that does not expire leaves the table by the statement of a DELETE that
\* names it, or its partition when the struct lacks the clustering column, and by
\* nothing else: no INSERT, no lost answer, no other caller, no reader.
THEOREM RowsAreKept == Spec => RowsRemain
<1> DEFINE Lost(k) ==
             \/ table[k].expires
             \/ \E c \in Caller : /\ call[c].step = "statement" /\ call'[c] # call[c]
                                /\ Named(c, k)
<1>1. ASSUME CallsInv, [Next]_vars, NEW k \in Rows, table'[k] = None
      PROVE  Lost(k)
  <2>1. k \in Key /\ table[k] # None /\ table \in [Key -> Cells]
    BY <1>1 DEF Rows, CallsInv
  <2>2. ASSUME NEW c \in Caller, Statement(c) PROVE Lost(k)
    <3>1. table' # table
      BY <1>1, <2>1
    <3>2. Accepted(call[c].op, call[c].model) /\ table' = Effect(c)
      BY <2>2, <3>1 DEF Statement, Executed, Unanswered, Store
    <3>3. call[c].step = "statement"
      BY <2>2 DEF Statement
    <3>4. Named(c, k)
      BY <1>1, <3>2, <3>3, EffectIsNamed
    <3>5. call'[c] # call[c]
      BY <1>1, <2>2, <3>3, StatementEnds
    <3> QED
      BY <3>3, <3>4, <3>5
  <2>3. ASSUME NEW j \in Key, Expire(j) PROVE Lost(k)
    BY <1>1, <2>1, <2>3 DEF Expire, Store
  <2>4. ASSUME table' = table PROVE Lost(k)
    BY <1>1, <2>1, <2>4
  <2>5. ASSUME NEW c \in Caller, NEW new \in Calls, Begin(c, new) PROVE Lost(k)
    BY <2>4, <2>5 DEF Begin
  <2>6. ASSUME NEW c \in Caller, PostHook(c) PROVE Lost(k)
    BY <2>4, <2>6 DEF PostHook
  <2>7. ASSUME NEW r \in Reader, NEW s \in Shapes, NEW j \in Key, Open(r, s, j[1]) PROVE Lost(k)
    BY <2>4, <2>7 DEF Open
  <2>8. ASSUME NEW r \in Reader, Fetch(r) PROVE Lost(k)
    BY <2>4, <2>8 DEF Fetch
  <2>9. CASE UNCHANGED vars
    BY <2>4, <2>9 DEF vars
  <2> HIDE DEF Lost
  <2> QED
    BY <1>1, <2>2, <2>3, <2>5, <2>6, <2>7, <2>8, <2>9 DEF Next
<1>2. IndInv /\ [Next]_vars =>
        [\A k \in Rows : table'[k] = None =>
            \/ table[k].expires
            \/ \E c \in Caller :
                /\ call[c].op = "delete" /\ call[c].step = "statement" /\ call'[c] # call[c]
                /\ \/ k = call[c].key
                   \/ k[1] = call[c].key[1] /\ "clustering" \notin call[c].model.columns]_vars
  BY <1>1 DEF IndInv, Named
<1> QED
  BY <1>2, Inductive, PTL DEF Spec, RowsRemain

\* Whichever way the pages are asked for and whatever their size, no row is read
\* twice, and a reader that came to the end without a failure has every row that
\* was there all the time.
THEOREM PagesComplete == Spec => []PagesExact
<1>1. IndInv => PagesExact
  BY DEF IndInv, ReadersInv, Reads, PagesExact
<1> QED
  BY <1>1, Inductive, PTL

=============================================================================
