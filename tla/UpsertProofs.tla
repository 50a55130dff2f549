---------------------------- MODULE UpsertProofs ----------------------------
(* Upsert for any number of callers and keys and any lists of them: no row is  *)
(* doubled where a unique index or a single caller guards the key, losing a    *)
(* race is no error, one caller creates, and seeding is complete and in order. *)
EXTENDS Upsert, FiniteSetTheorems, SequenceTheorems, WellFoundedInduction, TLAPS

\* How far each caller is: a call under way has no result yet, a row that is
\* about to be saved is of the key, a duplicate that was met is there.
Control ==
    \A c \in Caller :
        /\ pc[c] # "stopped" \/ result[c] # "none" =>
            Job(c) # Idle /\ pos[c] \in DOMAIN Job(c).keys
        /\ pc[c] # "stopped" => result[c] = "none"
        /\ pc[c] = "save" => entity[c] \in DOMAIN rows /\ rows[entity[c]].key = At(c)
        /\ pc[c] = "requery" \/ result[c] = "created" =>
            \E i \in DOMAIN rows : rows[i].key = At(c)

\* A row is deleted by Remove only.
Untouched == removed = 0 => \A i \in DOMAIN rows : rows[i].live

\* A unique index counts deleted rows, too.
Unique ==
    setup.unique => \A i, j \in DOMAIN rows : rows[i].key = rows[j].key => i = j

\* Without an index a single caller may rely on what it has seen.
Unraced ==
    Alone(setup) =>
        \A c \in Caller :
            /\ pc[c] = "create" => Live(At(c)) = {}
            /\ pc[c] = "save" => Live(At(c)) \subseteq {entity[c]}

OneRow ==
    setup.unique \/ Alone(setup) => \A k \in Key : \A i, j \in Live(k) : i = j

\* The keys before the one a caller is at are there.
Seeded ==
    removed = 0 =>
        \A c \in Caller : \A p \in DOMAIN Job(c).keys :
            result[c] = "ok" \/ (pc[c] # "stopped" /\ p < pos[c]) => Live(Job(c).keys[p]) # {}

IndInv ==
    /\ TypeOK /\ Control /\ Untouched
    /\ Unique /\ Unraced /\ OneRow
    /\ CreatedOnce /\ RaceTolerated /\ Seeded /\ SeedsInOrder

-----------------------------------------------------------------------------
(* What a step of a caller does                                            *)

\* The least of some natural numbers, for Load.
LEMMA Least ==
    ASSUME NEW S \in SUBSET Nat, S # {}
    PROVE  \E i \in S : \A j \in S : i <= j
<1>1. \E R : IsWellFoundedOn(R, Nat) /\ \A i, j \in Nat : <<j, i>> \in R <=> j < i
  <2>1. IsWellFoundedOn(OpToRel(<, Nat), Nat)
    BY NatLessThanWellFounded
  <2>2. \A i, j \in Nat : <<j, i>> \in OpToRel(<, Nat) <=> j < i
    BY DEF OpToRel
  <2> QED
    BY <2>1, <2>2
<1>2. PICK R : IsWellFoundedOn(R, Nat) /\ \A i, j \in Nat : <<j, i>> \in R <=> j < i
  BY <1>1
<1>3. PICK i \in S : \A j \in S : ~ (<<j, i>> \in R)
  BY <1>2, WFMin
<1>4. \A j \in S : i \in Nat /\ j \in Nat /\ ~ (j < i)
  BY <1>2, <1>3
<1> QED
  BY <1>4

\* A step of c leaves the other callers alone.
Frame(c) ==
    /\ setup' = setup /\ removed' = removed /\ (faults' = 0 => faults = 0)
    /\ \A d \in Caller \ {c} :
        /\ pc'[d] = pc[d] /\ pos'[d] = pos[d]
        /\ entity'[d] = entity[d] /\ result'[d] = result[d]

\* What may happen to the table.
Stores(c) ==
    \/ rows' = rows
    \/ pc[c] = "create" /\ ~Duplicate(At(c)) /\ Insert(c)
    \/ pc[c] = "save" /\ SaveRow(entity[c])

Rests(c, p) == pc'[c] = p /\ pos'[c] = pos[c] /\ result'[c] = result[c] /\ rows' = rows

Begins(c) ==
    /\ pc[c] = "stopped" /\ Job(c) # Idle
    /\ pc'[c] = "look" /\ pos'[c] = 1 /\ result'[c] = "none" /\ rows' = rows

Misses(c) == pc[c] = "look" /\ Live(At(c)) = {} /\ Rests(c, "create")

Loses(c) == pc[c] = "create" /\ Duplicate(At(c)) /\ Rests(c, "requery")

Finds(c) == pc[c] \in {"look", "requery"} /\ entity'[c] \in Live(At(c)) /\ Rests(c, "save")

\* The key has its row, and the caller goes on or is done.
Passes(c) ==
    /\ pc[c] # "stopped" /\ Stores(c)
    /\ \E i \in DOMAIN rows' : rows'[i].key = At(c) /\ rows'[i].live
    /\ \/ /\ pos[c] + 1 \in DOMAIN Job(c).keys
          /\ pc'[c] = "look" /\ pos'[c] = pos[c] + 1 /\ result'[c] = "none"
       \/ /\ pos[c] = Len(Job(c).keys)
          /\ pc'[c] = "stopped" /\ pos'[c] = pos[c] /\ result'[c] \in {"ok", "created", "found"}
          /\ result'[c] = "created" => ~Duplicate(At(c)) /\ Insert(c)

Aborts(c) ==
    /\ pc[c] # "stopped" /\ Stores(c)
    /\ pc'[c] = "stopped" /\ pos'[c] = pos[c] /\ result'[c] \in {"none", "error"}
    /\ faults' # 0 \/ (pc[c] = "requery" /\ Live(At(c)) = {})

Calls(c) == Begins(c) \/ Misses(c) \/ Loses(c) \/ Finds(c) \/ Passes(c) \/ Aborts(c)

CallStep(c) ==
    Start(c) \/ Look(c) \/ Create(c) \/ Requery(c) \/ Save(c) \/ Fail(c) \/ Crash(c)

\* The types of the constants, as far as a caller under way sees them.
LEMMA JobIs ==
    ASSUME TypeOK, NEW c \in Caller
    PROVE  /\ Job(c) \in JobType
           /\ Job(c).keys \in Seq(Key)
           /\ Job(c) # Idle => 1 \in DOMAIN Job(c).keys
           /\ setup.unique \in BOOLEAN
<1>1. setup \in [unique : BOOLEAN, job : [Caller -> JobType]]
  BY SetupAssumption DEF TypeOK
<1>2. Job(c) \in JobType /\ (Job(c) # Idle => Job(c).keys # <<>>)
  BY <1>1, SetupAssumption DEF TypeOK, Job
<1>3. Job(c).keys \in Seq(Key)
  BY <1>2 DEF JobType
<1> QED
  BY <1>1, <1>2, <1>3

LEMMA AtKey ==
    ASSUME TypeOK, Control, NEW c \in Caller, pc[c] # "stopped"
    PROVE  At(c) \in Key /\ pos[c] \in DOMAIN Job(c).keys /\ pos[c] \in 1 .. Len(Job(c).keys)
<1>1. pos[c] \in DOMAIN Job(c).keys
  BY DEF Control
<1> QED
  BY <1>1, JobIs DEF At

\* What Load loads.
LEMMA LoadIs ==
    ASSUME TypeOK, NEW c \in Caller, NEW k, Live(k) # {}, Load(c, k)
    PROVE  entity'[c] \in Live(k) /\ entity' \in [Caller -> 0 .. Len(rows)]
<1>1. Live(k) \subseteq 1 .. Len(rows) /\ Len(rows) \in Nat
  BY DEF TypeOK, Live
<1>2. \E i \in Live(k) : \A j \in Live(k) : i <= j
  BY <1>1, Least
<1>3. (CHOOSE i \in Live(k) : \A j \in Live(k) : i <= j) \in Live(k)
  BY <1>2
<1>4. entity \in [Caller -> 0 .. Len(rows)]
  BY DEF TypeOK
<1> QED
  BY <1>1, <1>3, <1>4 DEF Load

LEMMA SavedIs ==
    ASSUME TypeOK, NEW e \in DOMAIN rows, SaveRow(e)
    PROVE  /\ rows' \in Seq([key : Key, live : BOOLEAN])
           /\ Len(rows') = Len(rows) /\ DOMAIN rows' = DOMAIN rows
           /\ rows'[e].key = rows[e].key /\ rows'[e].live
           /\ \A i \in DOMAIN rows : i # e => rows'[i] = rows[i]
<1> DEFINE R == [key : Key, live : BOOLEAN]
           saved == [rows[e] EXCEPT !.live = TRUE]
<1>1. rows \in Seq(R) /\ DOMAIN rows = 1 .. Len(rows)
  BY DEF TypeOK
<1>2. rows[e] \in R
  <2> HIDE DEF R
  <2> QED
    BY <1>1
<1>3. saved \in R /\ saved.key = rows[e].key /\ saved.live
  BY <1>2
<1>4. rows' = [rows EXCEPT ![e] = saved]
  BY DEF SaveRow
<1> HIDE DEF saved, R
<1>5. rows' \in Seq(R) /\ Len(rows') = Len(rows) /\ DOMAIN rows' = DOMAIN rows
  BY <1>1, <1>3, <1>4, ExceptSeq
<1>6. rows'[e] = saved /\ \A i \in DOMAIN rows : i # e => rows'[i] = rows[i]
  BY <1>1, <1>4
<1> QED
  BY <1>3, <1>5, <1>6 DEF R

\* What a call may do to the rows: no key changes, no row goes, and a new or
\* undeleted row is one of the caller's key.
LEMMA StoreIs ==
    ASSUME TypeOK, Control, NEW c \in Caller, Stores(c)
    PROVE  /\ rows' \in Seq([key : Key, live : BOOLEAN])
           /\ DOMAIN rows \subseteq DOMAIN rows' /\ Len(rows') >= Len(rows)
           /\ \A i \in DOMAIN rows :
                /\ rows'[i].key = rows[i].key
                /\ rows[i].live => rows'[i].live
                /\ rows'[i].live /\ ~rows[i].live => pc[c] = "save" /\ i = entity[c]
           /\ \A i \in DOMAIN rows' \ DOMAIN rows :
                /\ pc[c] = "create" /\ ~Duplicate(At(c)) /\ i = Len(rows) + 1
                /\ rows'[i].key = At(c) /\ rows'[i].live
<1> DEFINE R == [key : Key, live : BOOLEAN]
<1>1. rows \in Seq(R) /\ Len(rows) \in Nat /\ DOMAIN rows = 1 .. Len(rows)
  BY DEF TypeOK
<1>2. \A i \in DOMAIN rows : rows[i] \in R
  <2> HIDE DEF R
  <2> QED
    BY <1>1
<1>3. CASE rows' = rows
  BY <1>1, <1>3
<1>4. CASE pc[c] = "create" /\ ~Duplicate(At(c)) /\ Insert(c)
  <2>1. At(c) \in Key
    BY <1>4, AtKey
  <2> DEFINE new == [key |-> At(c), live |-> TRUE]
  <2>2. new \in R /\ new.key = At(c) /\ new.live
    BY <2>1
  <2>3. rows' = Append(rows, new)
    BY <1>4 DEF Insert
  <2> HIDE DEF new, R
  <2>4. /\ rows' \in Seq(R) /\ Len(rows') = Len(rows) + 1
        /\ \A i \in 1 .. Len(rows) : rows'[i] = rows[i]
        /\ rows'[Len(rows) + 1] = new
    BY <1>1, <2>2, <2>3
  <2>5. DOMAIN rows' = 1 .. Len(rows) + 1
    BY <2>4
  <2>6. \A i \in DOMAIN rows' \ DOMAIN rows : i = Len(rows) + 1
    BY <1>1, <2>5
  <2> QED
    BY <1>1, <1>4, <2>2, <2>4, <2>5, <2>6 DEF R
<1>5. CASE pc[c] = "save" /\ SaveRow(entity[c])
  <2>1. entity[c] \in DOMAIN rows
    BY <1>5 DEF Control
  <2> QED
    BY <1>1, <1>5, <2>1, SavedIs
<1> QED
  BY <1>3, <1>4, <1>5 DEF Stores

LEMMA SucceedIs ==
    ASSUME TypeOK, Control, NEW c \in Caller, pc[c] # "stopped",
           NEW r \in Results, Succeed(c, r)
    PROVE  /\ \/ /\ pos[c] + 1 \in DOMAIN Job(c).keys
                 /\ pc'[c] = "look" /\ pos'[c] = pos[c] + 1 /\ result'[c] = "none"
              \/ /\ pos[c] = Len(Job(c).keys)
                 /\ pc'[c] = "stopped" /\ pos'[c] = pos[c] /\ result'[c] = r
           /\ \A d \in Caller \ {c} :
                pc'[d] = pc[d] /\ pos'[d] = pos[d] /\ result'[d] = result[d]
<1>1. /\ pos[c] \in 1 .. Len(Job(c).keys) /\ DOMAIN Job(c).keys = 1 .. Len(Job(c).keys)
      /\ Len(Job(c).keys) \in Nat
  BY AtKey, JobIs
<1>2. result[c] = "none"
  BY DEF Control
<1>3. CASE pos[c] < Len(Job(c).keys)
  BY <1>1, <1>2, <1>3 DEF Succeed, TypeOK
<1>4. CASE ~(pos[c] < Len(Job(c).keys))
  BY <1>1, <1>4 DEF Succeed, Stop, TypeOK
<1> QED
  BY <1>3, <1>4

LEMMA GotoIs ==
    ASSUME TypeOK, NEW c \in Caller, NEW p, Goto(c, p), rows' = rows
    PROVE  /\ Rests(c, p)
           /\ \A d \in Caller \ {c} :
                pc'[d] = pc[d] /\ pos'[d] = pos[d] /\ result'[d] = result[d]
BY DEF TypeOK, Goto, Rests

LEMMA StopIs ==
    ASSUME TypeOK, NEW c \in Caller, NEW r, Stop(c, r)
    PROVE  /\ pc'[c] = "stopped" /\ pos'[c] = pos[c] /\ result'[c] = r
           /\ \A d \in Caller \ {c} :
                pc'[d] = pc[d] /\ pos'[d] = pos[d] /\ result'[d] = result[d]
BY DEF TypeOK, Stop

\* A look that finds the row: a seeder saves it, others are done with the key.
LEMMA FoundIs ==
    ASSUME TypeOK, Control, NEW c \in Caller, pc[c] \in {"look", "requery"},
           Live(At(c)) # {}, Load(c, At(c)), rows' = rows, setup' = setup, removed' = removed, faults' = faults,
           IF Seeds(c) THEN Goto(c, "save") ELSE Succeed(c, "found")
    PROVE  Frame(c) /\ (Finds(c) \/ Passes(c))
<1>1. entity'[c] \in Live(At(c)) /\ \A d \in Caller \ {c} : entity'[d] = entity[d]
  BY LoadIs DEF Load, TypeOK
<1>2. CASE Seeds(c)
  BY <1>1, <1>2, GotoIs DEF Frame, Finds
<1>3. CASE ~Seeds(c)
  <2>1. \E i \in DOMAIN rows' : rows'[i].key = At(c) /\ rows'[i].live
    BY <1>1 DEF Live
  <2>2. "found" \in Results
    BY DEF Results
  <2> QED
    BY <1>1, <1>3, <2>1, <2>2, SucceedIs DEF Frame, Passes, Stores
<1> QED
  BY <1>2, <1>3

\* Every step of a caller is one of these.
LEMMA CallIs ==
    ASSUME TypeOK, Control, NEW c \in Caller, CallStep(c)
    PROVE  Frame(c) /\ Calls(c)
<1>0. pc[c] # "stopped" => At(c) \in Key
  BY AtKey
<1>1. CASE Start(c)
  BY <1>1 DEF Start, Frame, Calls, Begins, TypeOK
<1>2. CASE Look(c)
  <2>1. CASE Live(At(c)) = {}
    <3>1. Goto(c, "create") /\ rows' = rows /\ entity' = entity /\ UNCHANGED <<setup, faults, removed>>
      BY <1>2, <2>1 DEF Look
    <3> QED
      BY <1>2, <2>1, <3>1, GotoIs DEF Look, Frame, Calls, Misses
  <2>2. CASE Live(At(c)) # {}
    BY <1>2, <2>2, FoundIs DEF Look, Calls
  <2> QED
    BY <2>1, <2>2
<1>3. CASE Create(c)
  <2>1. CASE Duplicate(At(c))
    <3>1. Goto(c, "requery") /\ rows' = rows /\ entity' = entity /\ UNCHANGED <<setup, faults, removed>>
      BY <1>3, <2>1 DEF Create
    <3> QED
      BY <1>3, <2>1, <3>1, GotoIs DEF Create, Frame, Calls, Loses
  <2>2. CASE ~Duplicate(At(c))
    <3>1. /\ pc[c] = "create" /\ Insert(c) /\ UNCHANGED <<setup, faults, removed>>
          /\ entity' = [entity EXCEPT ![c] = Len(rows) + 1]
          /\ \E r \in {"ok", "created"} : Succeed(c, r)
      BY <1>3, <2>2 DEF Create
    <3>2. \A d \in Caller \ {c} : entity'[d] = entity[d]
      BY <3>1 DEF TypeOK
    <3>3. Stores(c)
      BY <2>2, <3>1 DEF Stores
    <3>4. \E i \in DOMAIN rows' : rows'[i].key = At(c) /\ rows'[i].live
      <4>1. Len(rows) + 1 \in DOMAIN rows' \ DOMAIN rows
        BY <3>1 DEF Insert, TypeOK
      <4> QED
        BY <3>3, <4>1, StoreIs
    <3>5. {"ok", "created"} \subseteq Results
      BY DEF Results
    <3> QED
      BY <2>2, <3>1, <3>2, <3>3, <3>4, <3>5, SucceedIs DEF Frame, Calls, Passes
  <2> QED
    BY <2>1, <2>2
<1>4. CASE Requery(c)
  <2>1. CASE Live(At(c)) = {}
    <3>1. /\ pc[c] = "requery" /\ Stop(c, "error")
          /\ rows' = rows /\ entity' = entity /\ UNCHANGED <<setup, faults, removed>>
      BY <1>4, <2>1 DEF Requery
    <3> QED
      BY <2>1, <3>1, StopIs DEF Frame, Calls, Aborts, Stores
  <2>2. CASE Live(At(c)) # {}
    BY <1>4, <2>2, FoundIs DEF Requery, Calls
  <2> QED
    BY <2>1, <2>2
<1>5. CASE Save(c)
  <2>1. /\ pc[c] = "save" /\ SaveRow(entity[c]) /\ Succeed(c, "ok")
        /\ entity' = entity /\ UNCHANGED <<setup, faults, removed>>
    BY <1>5 DEF Save
  <2>2. Stores(c) /\ entity[c] \in DOMAIN rows /\ rows[entity[c]].key = At(c)
    BY <2>1 DEF Stores, Control
  <2>3. rows'[entity[c]].live
    BY <2>1, <2>2, SavedIs
  <2>4. \E i \in DOMAIN rows' : rows'[i].key = At(c) /\ rows'[i].live
    BY <2>2, <2>3, StoreIs
  <2>5. "ok" \in Results
    BY DEF Results
  <2> QED
    BY <2>1, <2>2, <2>4, <2>5, SucceedIs DEF Frame, Calls, Passes
<1>6. CASE Fail(c) \/ Crash(c)
  <2>1. /\ pc[c] # "stopped" /\ Stores(c) /\ faults' # 0
        /\ entity' = entity /\ UNCHANGED <<setup, removed>>
    BY <1>6 DEF Fail, Crash, Fault, Stores, TypeOK
  <2>2. \E r \in {"none", "error"} : Stop(c, r)
    BY <1>6 DEF Fail, Crash
  <2> QED
    BY <2>1, <2>2, StopIs DEF Frame, Calls, Aborts
<1> QED
  BY <1>1, <1>2, <1>3, <1>4, <1>5, <1>6 DEF CallStep

-----------------------------------------------------------------------------
(* The types                                                               *)

\* What Goto, Stop and Succeed keep of the types.
Moved ==
    /\ pc' \in [Caller -> {"stopped", "look", "create", "requery", "save"}]
    /\ pos' \in [Caller -> Nat] /\ result' \in [Caller -> Results]
    /\ \A c \in Caller : pos'[c] = 1 \/ pos'[c] \in DOMAIN Job(c).keys

LEMMA GotoMoves ==
    ASSUME TypeOK, NEW c \in Caller, NEW p \in {"create", "requery", "save"}, Goto(c, p)
    PROVE  Moved
BY DEF TypeOK, Goto, Moved

LEMMA StopMoves ==
    ASSUME TypeOK, NEW c \in Caller, NEW r \in Results, Stop(c, r)
    PROVE  Moved
BY DEF TypeOK, Stop, Moved

LEMMA SucceedMoves ==
    ASSUME TypeOK, Control, NEW c \in Caller, pc[c] # "stopped",
           NEW r \in Results, Succeed(c, r)
    PROVE  Moved
<1>1. CASE pos[c] < Len(Job(c).keys)
  <2>1. pos[c] + 1 \in DOMAIN Job(c).keys
    BY <1>1, AtKey, JobIs
  <2>2. /\ pos' = [pos EXCEPT ![c] = @ + 1] /\ result' = result
        /\ pc' = [pc EXCEPT ![c] = "look"]
    BY <1>1 DEF Succeed
  <2>3. \A d \in Caller : pos'[d] = 1 \/ pos'[d] \in DOMAIN Job(d).keys
    <3> TAKE d \in Caller
    <3>1. CASE d = c
      BY <2>1, <2>2, <3>1 DEF TypeOK
    <3>2. CASE d # c
      BY <2>2, <3>2 DEF TypeOK
    <3> QED
      BY <3>1, <3>2
  <2> QED
    BY <2>2, <2>3 DEF TypeOK, Moved
<1>2. CASE ~(pos[c] < Len(Job(c).keys))
  BY <1>2, StopMoves DEF Succeed
<1> QED
  BY <1>1, <1>2

\* The rest of the types.
Kept ==
    /\ setup' = setup /\ runs' = runs /\ removed' = removed
    /\ faults' \in 0 .. MaxFaults
    /\ entity' \in [Caller -> 0 .. Len(rows')]

LEMMA KeptTyped ==
    ASSUME TypeOK, Control, NEW c \in Caller, Stores(c), Moved, Kept
    PROVE  TypeOK'
<1>1. rows' \in Seq([key : Key, live : BOOLEAN])
  BY StoreIs
<1>2. \A d \in Caller : pos'[d] = 1 \/ pos'[d] \in DOMAIN (Job(d).keys)'
  BY DEF Moved, Kept, Job
<1> QED
  BY <1>1, <1>2 DEF TypeOK, Moved, Kept

LEMMA FoundTyped ==
    ASSUME TypeOK, Control, NEW c \in Caller, pc[c] \in {"look", "requery"},
           Live(At(c)) # {}, Load(c, At(c)),
           UNCHANGED <<setup, rows, runs, faults, removed>>,
           IF Seeds(c) THEN Goto(c, "save") ELSE Succeed(c, "found")
    PROVE  TypeOK'
<1>1. Moved
  BY GotoMoves, SucceedMoves DEF Results
<1>2. Kept
  BY LoadIs DEF Kept, TypeOK
<1> QED
  BY <1>1, <1>2, KeptTyped DEF Stores

LEMMA CallTyped ==
    ASSUME TypeOK, Control, NEW c \in Caller, CallStep(c)
    PROVE  TypeOK'
<1>0. MaxFaults \in Nat /\ faults \in 0 .. MaxFaults /\ entity \in [Caller -> 0 .. Len(rows)]
  BY BoundAssumption DEF TypeOK
<1>1. CASE Start(c)
  <2>1. runs' \in [Caller -> 0 .. MaxRuns]
    BY <1>1, BoundAssumption DEF Start, TypeOK
  <2>2. \A d \in Caller : pos'[d] = 1 \/ pos'[d] \in DOMAIN (Job(d).keys)'
    BY <1>1 DEF Start, TypeOK, Job
  <2> QED
    BY <1>1, <2>1, <2>2 DEF Start, TypeOK, Results
<1>2. CASE Look(c)
  <2>1. CASE Live(At(c)) = {}
    BY <1>0, <1>2, <2>1, GotoMoves, KeptTyped DEF Look, Kept, Stores
  <2>2. CASE Live(At(c)) # {}
    BY <1>2, <2>2, FoundTyped DEF Look
  <2> QED
    BY <2>1, <2>2
<1>3. CASE Create(c)
  <2>1. CASE Duplicate(At(c))
    BY <1>0, <1>3, <2>1, GotoMoves, KeptTyped DEF Create, Kept, Stores
  <2>2. CASE ~Duplicate(At(c))
    <3>1. /\ pc[c] = "create" /\ Insert(c) /\ UNCHANGED <<setup, runs, faults, removed>>
          /\ entity' = [entity EXCEPT ![c] = Len(rows) + 1]
          /\ \E r \in {"ok", "created"} : Succeed(c, r)
      BY <1>3, <2>2 DEF Create
    <3>2. Stores(c)
      BY <2>2, <3>1 DEF Stores
    <3>3. Moved
      BY <3>1, SucceedMoves DEF Results
    <3>4. Len(rows') = Len(rows) + 1 /\ Len(rows) \in Nat
      BY <3>1 DEF Insert, TypeOK
    <3>5. entity' \in [Caller -> 0 .. Len(rows')]
      BY <1>0, <3>1, <3>4
    <3> QED
      BY <1>0, <3>1, <3>2, <3>3, <3>5, KeptTyped DEF Kept
  <2> QED
    BY <2>1, <2>2
<1>4. CASE Requery(c)
  <2>1. CASE Live(At(c)) = {}
    BY <1>0, <1>4, <2>1, StopMoves, KeptTyped DEF Requery, Kept, Stores, Results
  <2>2. CASE Live(At(c)) # {}
    BY <1>4, <2>2, FoundTyped DEF Requery
  <2> QED
    BY <2>1, <2>2
<1>5. CASE Save(c)
  <2>1. Stores(c) /\ entity' = entity /\ UNCHANGED <<setup, runs, faults, removed>>
    BY <1>5 DEF Save, Stores
  <2>2. Moved
    BY <1>5, SucceedMoves DEF Save, Results
  <2>3. entity' \in [Caller -> 0 .. Len(rows')]
    BY <1>0, <2>1, StoreIs DEF TypeOK
  <2> QED
    BY <1>0, <2>1, <2>2, <2>3, KeptTyped DEF Kept
<1>6. CASE Fail(c) \/ Crash(c)
  <2>1. Stores(c) /\ entity' = entity /\ UNCHANGED <<setup, runs, removed>> /\ Fault
    BY <1>6 DEF Fail, Crash, Stores
  <2>2. Moved
    BY <1>6, StopMoves DEF Fail, Crash, Results
  <2>3. entity' \in [Caller -> 0 .. Len(rows')]
    BY <1>0, <2>1, StoreIs DEF TypeOK
  <2> QED
    BY <1>0, <2>1, <2>2, <2>3, KeptTyped DEF Kept, Fault
<1> QED
  BY <1>1, <1>2, <1>3, <1>4, <1>5, <1>6 DEF CallStep

-----------------------------------------------------------------------------
(* The invariant over a call                                               *)

\* A step of c leaves the job and the key of another caller.
LEMMA OthersStay ==
    ASSUME NEW c \in Caller, Frame(c), NEW d \in Caller \ {c}
    PROVE  /\ Job(d)' = Job(d) /\ At(d)' = At(d)
           /\ pc'[d] = pc[d] /\ pos'[d] = pos[d]
           /\ entity'[d] = entity[d] /\ result'[d] = result[d]
BY DEF Frame, Job, At

\* The live rows of a key after the step.
After(k) == {i \in DOMAIN rows' : rows'[i].key = k /\ rows'[i].live}

\* The live rows of a key only grow in a call, by at most the caller's row.
LEMMA LiveIs ==
    ASSUME TypeOK, Control, NEW c \in Caller, Stores(c), NEW k
    PROVE  /\ Live(k) \subseteq Live(k)'
           /\ \A i \in Live(k)' \ Live(k) :
                /\ k = At(c)
                /\ \/ pc[c] = "create" /\ ~Duplicate(At(c)) /\ Insert(c) /\ i = Len(rows) + 1
                   \/ pc[c] = "save" /\ i = entity[c]
<1>1. Live(k) \subseteq Live(k)'
  BY StoreIs DEF Live
<1>2. ASSUME NEW i \in Live(k)' \ Live(k)
      PROVE  /\ k = At(c)
             /\ \/ pc[c] = "create" /\ ~Duplicate(At(c)) /\ Insert(c) /\ i = Len(rows) + 1
                \/ pc[c] = "save" /\ i = entity[c]
  <2>1. i \in DOMAIN rows' /\ rows'[i].key = k /\ rows'[i].live
    BY <1>2 DEF Live
  <2>2. CASE i \in DOMAIN rows
    <3>1. rows[i].key = k /\ pc[c] = "save" /\ i = entity[c]
      BY <1>2, <2>1, <2>2, StoreIs DEF Live
    <3> QED
      BY <3>1 DEF Control
  <2>3. CASE i \notin DOMAIN rows
    <3>1. pc[c] = "create" /\ ~Duplicate(At(c)) /\ i = Len(rows) + 1 /\ k = At(c)
      BY <2>1, <2>3, StoreIs
    <3>2. Insert(c)
      BY <2>1, <2>3, <3>1 DEF Stores
    <3> QED
      BY <3>1, <3>2
  <2> QED
    BY <2>2, <2>3
<1> QED
  BY <1>1, <1>2

LEMMA AfterIs ==
    ASSUME TypeOK, Control, NEW c \in Caller, Stores(c), NEW k
    PROVE  /\ Live(k) \subseteq After(k)
           /\ \A i \in After(k) \ Live(k) : k = At(c) /\
                (pc[c] = "create" \/ (pc[c] = "save" /\ i = entity[c]))
BY LiveIs DEF After, Live

\* A caller that does something has a list.
LEMMA CallsStore ==
    ASSUME TypeOK, Control, NEW c \in Caller, Calls(c)
    PROVE  Stores(c) /\ Job(c) # Idle
BY DEF Calls, Begins, Misses, Loses, Finds, Passes, Aborts, Rests, Stores, Control

LEMMA ControlKept ==
    ASSUME TypeOK, Control, NEW c \in Caller, Frame(c), Calls(c)
    PROVE  Control'
<1>1. Stores(c) /\ setup' = setup
  BY CallsStore DEF Frame
<1>2. /\ DOMAIN rows \subseteq DOMAIN rows'
      /\ \A i \in DOMAIN rows : rows'[i].key = rows[i].key
  BY <1>1, StoreIs
<1> SUFFICES ASSUME NEW d \in Caller
             PROVE  /\ pc'[d] # "stopped" \/ result'[d] # "none" =>
                        Job(d)' # Idle /\ pos'[d] \in DOMAIN Job(d)'.keys
                    /\ pc'[d] # "stopped" => result'[d] = "none"
                    /\ pc'[d] = "save" =>
                        entity'[d] \in DOMAIN rows' /\ rows'[entity'[d]].key = At(d)'
                    /\ pc'[d] = "requery" \/ result'[d] = "created" =>
                        \E i \in DOMAIN rows' : rows'[i].key = At(d)'
  BY DEF Control
<1>3. CASE d # c
  <2>1. /\ Job(d)' = Job(d) /\ At(d)' = At(d)
        /\ pc'[d] = pc[d] /\ pos'[d] = pos[d]
        /\ entity'[d] = entity[d] /\ result'[d] = result[d]
    BY <1>3, OthersStay
  <2> QED
    BY <1>2, <2>1 DEF Control
<1>4. CASE d = c
  <2>1. Job(c)' = Job(c) /\ Job(c) # Idle
    BY <1>1, CallsStore DEF Job
  <2>2. pos'[c] = pos[c] => At(c)' = At(c)
    BY <2>1 DEF At
  <2>3. pc[c] # "stopped" => pos[c] \in DOMAIN Job(c).keys /\ result[c] = "none"
    BY DEF Control
  <2>4. CASE Begins(c)
    BY <1>4, <2>1, <2>4, JobIs DEF Begins
  <2>5. CASE Misses(c)
    BY <1>4, <2>1, <2>3, <2>5 DEF Misses, Rests
  <2>6. CASE Loses(c)
    BY <1>4, <2>1, <2>2, <2>3, <2>6 DEF Loses, Rests, Duplicate
  <2>7. CASE Finds(c)
    BY <1>4, <2>1, <2>2, <2>3, <2>7 DEF Finds, Rests, Live
  <2>8. CASE Passes(c)
    BY <1>4, <2>1, <2>2, <2>3, <2>8 DEF Passes
  <2>9. CASE Aborts(c)
    BY <1>4, <2>1, <2>3, <2>9 DEF Aborts
  <2> QED
    BY <2>4, <2>5, <2>6, <2>7, <2>8, <2>9 DEF Calls
<1> QED
  BY <1>3, <1>4

LEMMA UniqueKept ==
    ASSUME IndInv, NEW c \in Caller, Frame(c), Calls(c)
    PROVE  Untouched' /\ Unique' /\ CreatedOnce' /\ RaceTolerated'
<1> USE DEF IndInv
<1>1. Stores(c) /\ setup' = setup /\ removed' = removed
  BY CallsStore DEF Frame
<1>2. Untouched'
  BY <1>1, StoreIs DEF Untouched
<1>3. Unique'
  <2> SUFFICES ASSUME setup.unique, NEW i \in DOMAIN rows', NEW j \in DOMAIN rows',
                      rows'[i].key = rows'[j].key
               PROVE  i = j
    BY <1>1 DEF Unique
  <2>1. CASE i \in DOMAIN rows /\ j \in DOMAIN rows
    BY <1>1, <2>1, StoreIs DEF Unique
  <2>2. CASE i \notin DOMAIN rows /\ j \in DOMAIN rows
    BY <1>1, <2>2, StoreIs DEF Duplicate
  <2>3. CASE i \in DOMAIN rows /\ j \notin DOMAIN rows
    BY <1>1, <2>3, StoreIs DEF Duplicate
  <2>4. CASE i \notin DOMAIN rows /\ j \notin DOMAIN rows
    BY <1>1, <2>4, StoreIs
  <2> QED
    BY <2>1, <2>2, <2>3, <2>4
<1>4. CreatedOnce'
  <2> SUFFICES ASSUME setup.unique, NEW d \in Caller, NEW e \in Caller, d # e,
                      result'[d] = "created", result'[e] = "created"
               PROVE  At(d)' # At(e)'
    BY <1>1 DEF CreatedOnce
  <2>1. \A f \in Caller \ {c} :
          /\ At(f)' = At(f) /\ result'[f] = result[f]
          /\ result[f] = "created" => \E i \in DOMAIN rows : rows[i].key = At(f)
    BY OthersStay DEF Control
  <2>2. result'[c] = "created" =>
          /\ At(c)' = At(c)
          /\ (result[c] = "created") \/ ~Duplicate(At(c))
    <3>1. pos'[c] = pos[c] => At(c)' = At(c)
      BY <1>1 DEF At, Job
    <3> QED
      BY <3>1 DEF Calls, Begins, Misses, Loses, Finds, Passes, Aborts, Rests
  <2> QED
    BY <2>1, <2>2 DEF CreatedOnce, Duplicate
<1>5. RaceTolerated'
  <2> SUFFICES ASSUME faults' = 0, removed' = 0, NEW d \in Caller
               PROVE  result'[d] # "error"
    BY DEF RaceTolerated
  <2>1. faults = 0 /\ removed = 0 /\ \A f \in Caller : result[f] # "error"
    BY <1>1 DEF Frame, RaceTolerated
  <2>2. CASE d # c
    BY <2>1, <2>2, OthersStay
  <2>3. pc[c] = "requery" => Live(At(c)) # {}
    BY <2>1 DEF Control, Untouched, Live
  <2>4. CASE d = c
    BY <2>1, <2>3, <2>4 DEF Calls, Begins, Misses, Loses, Finds, Passes, Aborts, Rests
  <2> QED
    BY <2>2, <2>4
<1> QED
  BY <1>2, <1>3, <1>4, <1>5

LEMMA OneRowKept ==
    ASSUME IndInv, NEW c \in Caller, Frame(c), Calls(c)
    PROVE  Unraced' /\ OneRow'
<1> USE DEF IndInv
<1>1. Stores(c) /\ Job(c) # Idle /\ setup' = setup
  BY CallsStore DEF Frame
<1>2. ASSUME Alone(setup), NEW k
      PROVE  \A i, j \in Live(k)' : i = j
  <2>1. \A i, j \in Live(k) : i = j
    <3>1. CASE k \in Key
      BY <1>2, <3>1 DEF OneRow
    <3>2. CASE k \notin Key
      <4>1. \A i \in DOMAIN rows : rows[i].key \in Key
        <5> DEFINE R == [key : Key, live : BOOLEAN]
        <5>1. \A i \in DOMAIN rows : rows[i] \in R
          <6>1. rows \in Seq(R)
            BY DEF TypeOK
          <6> HIDE DEF R
          <6> QED
            BY <6>1
        <5> QED
          BY <5>1
      <4> QED
        BY <3>2, <4>1 DEF Live
    <3> QED
      BY <3>1, <3>2
  <2>2. pc[c] = "create" => Live(At(c)) = {}
    BY <1>2 DEF Unraced
  <2>3. pc[c] = "save" => Live(At(c)) \subseteq {entity[c]}
    BY <1>2 DEF Unraced
  <2>4. Live(k) \subseteq Live(k)'
    BY <1>1, LiveIs
  <2> QED
    BY <1>1, <2>1, <2>2, <2>3, LiveIs
<1>3. ASSUME Alone(setup), NEW d \in Caller
      PROVE  /\ pc'[d] = "create" => Live(At(d))' = {}
             /\ pc'[d] = "save" => Live(At(d))' \subseteq {entity'[d]}
  <2>1. CASE d = c
    <3>1. Job(c)' = Job(c)
      BY <1>1 DEF Job
    <3>2. pos'[c] = pos[c] => At(c)' = At(c)
      BY <3>1 DEF At
    <3>3. pc'[c] = "create" => Misses(c)
      BY DEF Calls, Begins, Misses, Loses, Finds, Passes, Aborts, Rests
    <3>4. pc'[c] = "save" => Finds(c)
      BY DEF Calls, Begins, Misses, Loses, Finds, Passes, Aborts, Rests
    <3>5. pos'[c] = pos[c] /\ rows' = rows => Live(At(c))' = Live(At(c))
      BY <3>2 DEF Live
    <3>6. \A i, j \in Live(At(c)) : i = j
      <4>1. \A k : Live(k) \subseteq Live(k)'
        BY <1>1, LiveIs
      <4> QED
        BY <1>2, <1>3, <4>1
    <3> QED
      BY <2>1, <3>3, <3>4, <3>5, <3>6 DEF Misses, Finds, Rests
  <2>2. CASE d # c
    <3>1. Job(d) = Idle
      BY <1>1, <1>3, <2>2 DEF Alone, Job
    <3>2. pc'[d] = "stopped"
      BY <2>2, <3>1, OthersStay DEF Control
    <3> QED
      BY <3>2
  <2> QED
    BY <2>1, <2>2
<1>4. Unraced'
  BY <1>1, <1>3 DEF Unraced, Alone
<1>5. ASSUME setup.unique PROVE \A k \in Key : \A i, j \in Live(k)' : i = j
  BY <1>1, <1>5, UniqueKept DEF Unique, Live
<1>6. OneRow'
  BY <1>1, <1>2, <1>5 DEF OneRow, Alone
<1> QED
  BY <1>4, <1>6

LEMMA SeededKept ==
    ASSUME IndInv, NEW c \in Caller, Frame(c), Calls(c)
    PROVE  Seeded'
<1> USE DEF IndInv
<1>1. Stores(c) /\ setup' = setup /\ removed' = removed
  BY CallsStore DEF Frame
<1> SUFFICES ASSUME removed = 0, NEW d \in Caller, NEW p \in DOMAIN Job(d).keys,
                    result'[d] = "ok" \/ (pc'[d] # "stopped" /\ p < pos'[d])
             PROVE  After(Job(d).keys[p]) # {}
  BY <1>1 DEF Seeded, Job, Live, After
<1>2. \A k : Live(k) \subseteq After(k)
  BY <1>1, AfterIs
<1>3. CASE result[d] = "ok" \/ (pc[d] # "stopped" /\ p < pos[d])
  BY <1>2, <1>3 DEF Seeded
<1>4. CASE ~ (result[d] = "ok" \/ (pc[d] # "stopped" /\ p < pos[d]))
  <2>1. d = c
    BY <1>4, OthersStay
  <2>2. p \in 1 .. Len(Job(c).keys) /\ Len(Job(c).keys) \in Nat /\ pos[c] \in Nat
    BY <2>1, JobIs DEF TypeOK
  <2>3. Passes(c)
    BY <1>4, <2>1, <2>2 DEF Calls, Begins, Misses, Loses, Finds, Aborts, Rests
  <2>4. p = pos[c]
    BY <1>4, <2>1, <2>2, <2>3 DEF Passes
  <2>5. After(At(c)) # {}
    BY <2>3 DEF Passes, After
  <2>6. Job(d).keys[p] = At(c)
    BY <2>1, <2>4 DEF At
  <2> QED
    BY <2>5, <2>6
<1> QED
  BY <1>3, <1>4

\* The only seeder creates the key at its position: the rows are there up to
\* the one before, and none of this key.
LEMMA InOrderKept ==
    ASSUME IndInv, NEW c \in Caller, Frame(c), Calls(c)
    PROVE  SeedsInOrder'
<1> USE DEF IndInv
<1>1. Stores(c) /\ Job(c) # Idle /\ setup' = setup /\ removed' = removed
  BY CallsStore DEF Frame
<1> SUFFICES ASSUME removed = 0, NEW d \in Caller,
                    \A e \in Caller : e # d => Job(e) = Idle
             PROVE  \E n \in 0 .. Len(Job(d).keys) :
                        \A k \in Key :
                            After(k) # {} <=> \E p \in 1 .. n : Job(d).keys[p] = k
  BY <1>1 DEF SeedsInOrder, Job, Live, After
<1>2. d = c
  BY <1>1
<1>3. PICK n \in 0 .. Len(Job(c).keys) :
        \A k \in Key : Live(k) # {} <=> \E p \in 1 .. n : Job(c).keys[p] = k
  BY <1>2 DEF SeedsInOrder
<1>4. CASE pc[c] # "create"
  <2>1. \A k : After(k) = Live(k)
    <3>1. pc[c] = "save" => entity[c] \in DOMAIN rows /\ rows[entity[c]].key = At(c)
      BY DEF Control
    <3>2. \A i \in DOMAIN rows : rows[i].live
      BY DEF Untouched
    <3> TAKE k
    <3>3. ASSUME NEW i \in After(k) \ Live(k) PROVE FALSE
      BY <1>1, <1>4, <3>1, <3>2, <3>3, AfterIs DEF Live
    <3>4. Live(k) \subseteq After(k)
      BY <1>1, AfterIs
    <3> QED
      BY <3>3, <3>4
  <2> QED
    BY <1>2, <1>3, <2>1
<1>5. CASE pc[c] = "create"
  <2>1. Live(At(c)) = {}
    BY <1>2, <1>5 DEF Unraced, Alone, Job
  <2>2. pos[c] \in 1 .. Len(Job(c).keys) /\ At(c) = Job(c).keys[pos[c]] /\ At(c) \in Key
    BY <1>5, AtKey DEF At
  <2>3. Len(Job(c).keys) \in Nat /\ DOMAIN Job(c).keys = 1 .. Len(Job(c).keys)
    BY JobIs
  <2>4. n < pos[c]
    BY <1>3, <2>1, <2>2, <2>3
  <2>5. \A p \in 1 .. pos[c] - 1 : Live(Job(c).keys[p]) # {}
    BY <1>5, <2>2, <2>3 DEF Seeded
  <2>6. CASE \A k : After(k) = Live(k)
    BY <1>2, <1>3, <2>6
  <2>7. CASE After(At(c)) # {} /\ \A k : k # At(c) => After(k) = Live(k)
    <3>1. \A k \in Key : After(k) # {} <=> \E p \in 1 .. pos[c] : Job(c).keys[p] = k
      <4> TAKE k \in Key
      <4>1. CASE k = At(c)
        BY <2>2, <2>3, <2>7, <4>1
      <4>2. CASE k # At(c) /\ After(k) # {}
        <5>1. PICK p \in 1 .. n : Job(c).keys[p] = k
          BY <1>3, <2>7, <4>2
        <5>2. p \in 1 .. pos[c]
          BY <2>2, <2>3, <2>4
        <5> QED
          BY <4>2, <5>1, <5>2
      <4>3. CASE k # At(c) /\ After(k) = {}
        <5>1. Live(k) = {}
          BY <2>7, <4>3
        <5>2. \A p \in 1 .. pos[c] : p = pos[c] \/ p \in 1 .. pos[c] - 1
          BY <2>2, <2>3
        <5> QED
          BY <2>2, <2>5, <4>3, <5>1, <5>2
      <4> QED
        BY <4>1, <4>2, <4>3
    <3>2. pos[c] \in 0 .. Len(Job(c).keys)
      BY <2>2, <2>3
    <3> QED
      BY <1>2, <3>1, <3>2
  <2>8. (\A k : After(k) = Live(k)) \/ (After(At(c)) # {} /\ \A k : k # At(c) => After(k) = Live(k))
    <3>1. \A k : Live(k) \subseteq After(k) /\ (k # At(c) => After(k) \subseteq Live(k))
      BY <1>1, AfterIs
    <3>2. \A k : k # At(c) => After(k) = Live(k)
      <4> TAKE k
      <4>1. Live(k) \subseteq After(k) /\ (k # At(c) => After(k) \subseteq Live(k))
        BY <3>1
      <4> QED
        BY <4>1
    <3>3. CASE After(At(c)) # {}
      BY <3>2, <3>3
    <3>4. CASE After(At(c)) = {}
      <4>1. \A k : After(k) = Live(k)
        BY <2>1, <3>2, <3>4
      <4> QED
        BY <4>1
    <3> QED
      BY <3>3, <3>4
  <2> QED
    BY <2>6, <2>7, <2>8
<1> QED
  BY <1>4, <1>5

\* Every conjunct of the invariant holds after a call's step.
LEMMA CallKeeps ==
    ASSUME IndInv, NEW c \in Caller, CallStep(c)
    PROVE  IndInv'
<1>1. TypeOK /\ Control
  BY DEF IndInv
<1>2. Frame(c) /\ Calls(c)
  BY <1>1, CallIs
<1>3. TypeOK'
  BY <1>1, CallTyped
<1>4. Control'
  BY <1>1, <1>2, ControlKept
<1> QED
  BY <1>2, <1>3, <1>4, UniqueKept, OneRowKept, SeededKept, InOrderKept DEF IndInv

-----------------------------------------------------------------------------
(* The invariant over a removal                                            *)

LEMMA RemovalKeeps ==
    ASSUME IndInv, Remove
    PROVE  IndInv'
<1> USE DEF IndInv
<1> DEFINE R == [key : Key, live : BOOLEAN]
<1>1. /\ removed' = removed + 1 /\ removed' \in 0 .. MaxRemoved /\ removed' # 0
      /\ UNCHANGED <<setup, pc, pos, entity, runs, result, faults>>
  BY BoundAssumption DEF Remove, callVars, TypeOK
<1>2. PICK i \in DOMAIN rows : rows' = [rows EXCEPT ![i].live = FALSE]
  BY DEF Remove
<1>3. rows \in Seq(R) /\ DOMAIN rows = 1 .. Len(rows)
  BY DEF TypeOK
<1>4. rows[i] \in R
  <2> HIDE DEF R
  <2> QED
    BY <1>3
<1>5. /\ rows' \in Seq(R) /\ Len(rows') = Len(rows) /\ DOMAIN rows' = DOMAIN rows
      /\ \A j \in DOMAIN rows : rows'[j].key = rows[j].key /\ (rows'[j].live => rows[j].live)
  <2> DEFINE gone == [rows[i] EXCEPT !.live = FALSE]
  <2>1. gone \in R /\ gone.key = rows[i].key /\ ~gone.live
    BY <1>4
  <2>2. rows' = [rows EXCEPT ![i] = gone]
    BY <1>2
  <2> HIDE DEF gone, R
  <2>3. rows' \in Seq(R) /\ Len(rows') = Len(rows) /\ DOMAIN rows' = DOMAIN rows
    BY <1>3, <2>1, <2>2, ExceptSeq
  <2>4. rows'[i] = gone /\ \A j \in DOMAIN rows : j # i => rows'[j] = rows[j]
    BY <1>3, <2>2
  <2> QED
    BY <2>1, <2>3, <2>4
<1>6. TypeOK'
  BY <1>1, <1>5 DEF TypeOK, Job
<1>7. Control'
  BY <1>1, <1>5 DEF Control, Job, At
<1>8. Unique'
  BY <1>1, <1>5 DEF Unique
<1>9. Unraced' /\ OneRow'
  BY <1>1, <1>5 DEF Unraced, OneRow, Live, At, Job, Alone
<1>10. CreatedOnce'
  BY <1>1 DEF CreatedOnce, At, Job
<1>11. Untouched' /\ RaceTolerated' /\ Seeded' /\ SeedsInOrder'
  BY <1>1 DEF Untouched, RaceTolerated, Seeded, SeedsInOrder
<1> QED
  BY <1>6, <1>7, <1>8, <1>9, <1>10, <1>11

LEMMA StutterKeeps ==
    ASSUME IndInv, UNCHANGED vars
    PROVE  IndInv'
<1> USE DEF IndInv, vars, callVars
<1>1. TypeOK'
  BY DEF TypeOK, Job
<1>2. Control'
  BY DEF Control, Job, At
<1>3. Untouched' /\ Unique'
  BY DEF Untouched, Unique
<1>4. Unraced' /\ OneRow'
  BY DEF Unraced, OneRow, Live, At, Job, Alone
<1>5. CreatedOnce' /\ RaceTolerated' /\ Seeded' /\ SeedsInOrder'
  BY DEF CreatedOnce, RaceTolerated, Seeded, SeedsInOrder, Live, At, Job
<1> QED
  BY <1>1, <1>2, <1>3, <1>4, <1>5

LEMMA InitHolds ==
    ASSUME Init
    PROVE  IndInv
<1>1. rows = <<>> /\ DOMAIN rows = {} /\ \A k : Live(k) = {}
  BY DEF Init, Live
<1>2. TypeOK
  <2>1. rows \in Seq([key : Key, live : BOOLEAN]) /\ Len(rows) = 0
    BY <1>1
  <2> QED
    BY <2>1, BoundAssumption DEF Init, TypeOK, Results
<1>3. Control /\ Untouched /\ Unique /\ Unraced /\ OneRow
  BY <1>1 DEF Init, Control, Untouched, Unique, Unraced, OneRow
<1>4. CreatedOnce /\ RaceTolerated /\ Seeded
  BY DEF Init, CreatedOnce, RaceTolerated, Seeded
<1>5. SeedsInOrder
  <2> SUFFICES ASSUME NEW c \in Caller
               PROVE  \E n \in 0 .. Len(Job(c).keys) :
                          \A k \in Key : Live(k) # {} <=> \E p \in 1 .. n : Job(c).keys[p] = k
    BY DEF SeedsInOrder
  <2>1. 0 \in 0 .. Len(Job(c).keys)
    BY <1>2, JobIs
  <2> QED
    BY <1>1, <2>1
<1> QED
  BY <1>2, <1>3, <1>4, <1>5 DEF IndInv

\* The invariant of every run of the callers.
THEOREM Inductive == Spec => []IndInv
<1>1. Init => IndInv
  BY InitHolds
<1>2. IndInv /\ [Next]_vars => IndInv'
  BY CallKeeps, RemovalKeeps, StutterKeeps DEF Next, CallStep
<1> QED
  BY <1>1, <1>2, PTL DEF Spec

-----------------------------------------------------------------------------
(* What the callers may rely on                                            *)

\* Every variable keeps its type; no caller runs past its list.
THEOREM TypeCorrect == Spec => []TypeOK
<1>1. IndInv => TypeOK
  BY DEF IndInv
<1> QED
  BY <1>1, Inductive, PTL

\* No key has two rows when a unique index or a single caller guards them, which
\* is all that keeps a seed idempotent.
THEOREM SafelyRerun == ASSUME Guarded PROVE Spec => []NoDuplicates
<1>1. IndInv => NoDuplicates
  <2> SUFFICES ASSUME IndInv, NEW k \in Key PROVE Cardinality(Live(k)) <= 1
    BY DEF NoDuplicates
  <2>1. setup.unique \/ Alone(setup)
    BY DEF Guarded, IndInv, TypeOK
  <2>2. \A i, j \in Live(k) : i = j
    BY <2>1 DEF IndInv, OneRow
  <2>3. CASE Live(k) = {}
    BY <2>3, FS_EmptySet
  <2>4. CASE Live(k) # {}
    <3>1. PICK i : Live(k) = {i}
      BY <2>2, <2>4
    <3>2. Cardinality({i}) = 1
      BY FS_Singleton
    <3> QED
      BY <3>1, <3>2
  <2> QED
    BY <2>3, <2>4
<1> QED
  BY <1>1, Inductive, PTL

\* The loser of a race finds the winner's row: no error without a fault.
THEOREM RacesTolerated == Spec => []RaceTolerated
<1>1. IndInv => RaceTolerated
  BY DEF IndInv
<1> QED
  BY <1>1, Inductive, PTL

\* With a unique index one caller at most is told that it created a key's row.
THEOREM OneCreator == Spec => []CreatedOnce
<1>1. IndInv => CreatedOnce
  BY DEF IndInv
<1> QED
  BY <1>1, Inductive, PTL

\* RunAll that returns nil has seeded every setting, whoever runs beside it.
THEOREM SeedingComplete == Spec => []SeedComplete
<1>1. IndInv => SeedComplete
  BY DEF IndInv, Seeded, SeedComplete
<1> QED
  BY <1>1, Inductive, PTL

\* What failed and crashed runs of the only seeder leave is a beginning of its list.
THEOREM SeedingOrder == Spec => []SeedsInOrder
<1>1. IndInv => SeedsInOrder
  BY DEF IndInv
<1> QED
  BY <1>1, Inductive, PTL

=============================================================================
