------------------------------- MODULE Upsert -------------------------------
(***************************************************************************)
(* Upsert and FirstOrCreate of repositories/database_repository.go: look   *)
(* for a row, create it, and look again when somebody else was faster.     *)
(* Callers are the seeds of database/seed, which upsert one setting after  *)
(* another and may be run again, and callers of FirstOrCreate.             *)
(*                                                                         *)
(* Every statement commits by itself (d.DB()).  A removed row is deleted   *)
(* softly (gorm.DeletedAt): queries do not see it, a unique index does.    *)
(***************************************************************************)
EXTENDS Integers, Sequences, FiniteSets

CONSTANTS
    Caller,
    Key,        \* the conditions of a call; they match the rows of one key
    Setups,     \* unique: is there a unique index?  job: what each caller does
    Idle,       \* job of a caller that does nothing
    MaxFaults,  \* bound on failed statements, lost answers and crashes
    MaxRuns,    \* bound on the runs of one job
    MaxRemoved  \* bound on the rows that are removed

ASSUME BoundAssumption == {MaxFaults, MaxRuns, MaxRemoved} \subseteq Nat

\* What a caller does: its call, and the keys it goes through.
JobType == [op : {"none", "upsert", "first"}, keys : Seq(Key)]

ASSUME SetupAssumption ==
    \A s \in Setups :
        /\ s \in [unique : BOOLEAN, job : [Caller -> JobType]]
        /\ \A c \in Caller : s.job[c] # Idle => s.job[c].keys # <<>>

VARIABLES
    setup,
    rows,       \* the table; the primary key of a row is its index
    pc, pos, entity, runs,
    result,     \* what the caller's last call returned
    faults, removed

callVars == <<pc, pos, entity, runs, result>>
vars == <<setup, rows, callVars, faults, removed>>

Job(c) == setup.job[c]
Seeds(c) == Job(c).op = "upsert"
\* The key the caller is at.
At(c) == Job(c).keys[pos[c]]

Results == {"none", "ok", "created", "found", "error"}

\* The types; a caller never runs past the end of its list.
TypeOK ==
    /\ setup \in Setups
    /\ rows \in Seq([key : Key, live : BOOLEAN])
    /\ pc \in [Caller -> {"stopped", "look", "create", "requery", "save"}]
    /\ pos \in [Caller -> Nat]
    /\ \A c \in Caller : pos[c] = 1 \/ pos[c] \in DOMAIN Job(c).keys
    /\ entity \in [Caller -> 0 .. Len(rows)]
    /\ runs \in [Caller -> 0 .. MaxRuns]
    /\ result \in [Caller -> Results]
    /\ faults \in 0 .. MaxFaults
    /\ removed \in 0 .. MaxRemoved

Init ==
    /\ setup \in Setups
    /\ rows = <<>>
    /\ pc = [c \in Caller |-> "stopped"]
    /\ pos = [c \in Caller |-> 1]
    /\ entity = [c \in Caller |-> 0]
    /\ runs = [c \in Caller |-> 0]
    /\ result = [c \in Caller |-> "none"]
    /\ faults = 0 /\ removed = 0

Live(k) == {i \in DOMAIN rows : rows[i].key = k /\ rows[i].live}

-----------------------------------------------------------------------------
(* Control                                                                 *)

Goto(c, p) == pc' = [pc EXCEPT ![c] = p] /\ UNCHANGED <<pos, result>>

Stop(c, r) ==
    /\ pc' = [pc EXCEPT ![c] = "stopped"]
    /\ result' = [result EXCEPT ![c] = r]
    /\ UNCHANGED pos

\* Faulty variant: off by one at the end of the list.
SucceedOnceMore(c, r) ==
    IF pos[c] <= Len(Job(c).keys)
    THEN /\ pc' = [pc EXCEPT ![c] = "look"]
         /\ pos' = [pos EXCEPT ![c] = @ + 1]
         /\ UNCHANGED result
    ELSE Stop(c, r)

\* The call for this key has succeeded: RunAll and Run go on to the next one.
Succeed(c, r) ==
    IF pos[c] < Len(Job(c).keys)
    THEN /\ pc' = [pc EXCEPT ![c] = "look"]
         /\ pos' = [pos EXCEPT ![c] = @ + 1]
         /\ UNCHANGED result
    ELSE Stop(c, r)

\* Which row First(&existing) and _CopyPrimaryKey, or First(entity), leave in
\* the entity: the lowest primary key.
Load(c, k) ==
    entity' = [entity EXCEPT ![c] = CHOOSE i \in Live(k) : \A j \in Live(k) : i <= j]

Fault == faults < MaxFaults /\ faults' = faults + 1

-----------------------------------------------------------------------------
(* The statements of a call                                                *)

\* RunAll, or FirstOrCreate, is called (again).
Start(c) ==
    /\ pc[c] = "stopped" /\ Job(c) # Idle /\ runs[c] < MaxRuns
    /\ runs' = [runs EXCEPT ![c] = @ + 1]
    /\ pos' = [pos EXCEPT ![c] = 1]
    /\ pc' = [pc EXCEPT ![c] = "look"]
    /\ result' = [result EXCEPT ![c] = "none"]
    /\ UNCHANGED <<setup, rows, entity, faults, removed>>

\* Faulty variant: a seed creates without looking.
LookSkipped(c) ==
    /\ pc[c] = "look"
    /\ Goto(c, "create")
    /\ UNCHANGED <<setup, rows, entity, runs, faults, removed>>

Look(c) ==
    /\ pc[c] = "look"
    /\ IF Live(At(c)) = {} THEN Goto(c, "create") /\ UNCHANGED entity
       ELSE /\ Load(c, At(c))
            /\ IF Seeds(c) THEN Goto(c, "save") ELSE Succeed(c, "found")
    /\ UNCHANGED <<setup, rows, runs, faults, removed>>

Insert(c) == rows' = Append(rows, [key |-> At(c), live |-> TRUE])

Duplicate(k) == setup.unique /\ \E i \in DOMAIN rows : rows[i].key = k

\* Faulty variant: a duplicate key is an error like any other.
CreateNoRequery(c) ==
    /\ pc[c] = "create"
    /\ IF Duplicate(At(c)) THEN Stop(c, "error") /\ UNCHANGED <<rows, entity>>
       ELSE /\ Insert(c)
            /\ entity' = [entity EXCEPT ![c] = Len(rows) + 1]
            /\ Succeed(c, IF Seeds(c) THEN "ok" ELSE "created")
    /\ UNCHANGED <<setup, runs, faults, removed>>

Create(c) ==
    /\ pc[c] = "create"
    /\ IF Duplicate(At(c)) THEN Goto(c, "requery") /\ UNCHANGED <<rows, entity>>
       ELSE /\ Insert(c)
            /\ entity' = [entity EXCEPT ![c] = Len(rows) + 1]
            /\ Succeed(c, IF Seeds(c) THEN "ok" ELSE "created")
    /\ UNCHANGED <<setup, runs, faults, removed>>

\* Faulty variant: the loser of the race is told that it created the row.
RequeryCreated(c) ==
    /\ pc[c] = "requery" /\ Live(At(c)) # {}
    /\ Load(c, At(c))
    /\ IF Seeds(c) THEN Goto(c, "save") ELSE Succeed(c, "created")
    /\ UNCHANGED <<setup, rows, runs, faults, removed>>

Requery(c) ==
    /\ pc[c] = "requery"
    /\ IF Live(At(c)) = {} THEN Stop(c, "error") /\ UNCHANGED entity
       ELSE /\ Load(c, At(c))
            /\ IF Seeds(c) THEN Goto(c, "save") ELSE Succeed(c, "found")
    /\ UNCHANGED <<setup, rows, runs, faults, removed>>

\* Save by primary key; when the UPDATE finds no row that is not deleted,
\* gorm inserts with ON CONFLICT UPDATE, which undeletes it.
SaveRow(i) == rows' = [rows EXCEPT ![i].live = TRUE]

Save(c) ==
    /\ pc[c] = "save"
    /\ SaveRow(entity[c])
    /\ Succeed(c, "ok")
    /\ UNCHANGED <<setup, entity, runs, faults, removed>>

\* Faulty variant: an error is logged and the next setting seeded.
FailSwallowed(c) ==
    /\ pc[c] # "stopped"
    /\ Fault
    /\ Succeed(c, "ok")
    /\ UNCHANGED <<setup, rows, entity, runs, removed>>

\* A hook or a statement fails, with no effect or, when the answer of the
\* database is lost or PostSave fails, with one.  The first error ends Run
\* and RunAll.
Fail(c) ==
    /\ pc[c] # "stopped"
    /\ Fault
    /\ Stop(c, "error")
    /\ \/ UNCHANGED rows
       \/ pc[c] = "create" /\ ~Duplicate(At(c)) /\ Insert(c)
       \/ pc[c] = "save" /\ SaveRow(entity[c])
    /\ UNCHANGED <<setup, entity, runs, removed>>

Crash(c) ==
    /\ pc[c] # "stopped"
    /\ Fault
    /\ Stop(c, "none")
    /\ UNCHANGED <<setup, rows, entity, runs, removed>>

\* Somebody deletes a row.
Remove ==
    /\ removed < MaxRemoved
    /\ removed' = removed + 1
    /\ \E i \in DOMAIN rows :
        /\ rows[i].live
        /\ rows' = [rows EXCEPT ![i].live = FALSE]
    /\ UNCHANGED <<setup, callVars, faults>>

Next ==
    \/ \E c \in Caller :
        Start(c) \/ Look(c) \/ Create(c) \/ Requery(c) \/ Save(c) \/ Fail(c) \/ Crash(c)
    \/ Remove

Spec == Init /\ [][Next]_vars

(***************************************************************************)
(* Correctness                                                             *)
(***************************************************************************)

\* What keeps the rows of a key apart: a unique index, or a single caller.
Alone(s) == \A c, d \in Caller : s.job[c] # Idle /\ s.job[d] # Idle => c = d
Guarded == \A s \in Setups : s.unique \/ Alone(s)

\* No two rows of one key: "Safe to run multiple times -- uses Upsert to avoid
\* duplicates" (database/seed/example_seed.go:18).  The migrations create no
\* unique index, so that it holds for one seeder at a time only.
NoDuplicates == \A k \in Key : Cardinality(Live(k)) <= 1

\* Losing the race for a row is no error: the duplicate-key branches of
\* UpsertTx and FirstOrCreateTx find the winner's row.
RaceTolerated ==
    faults = 0 /\ removed = 0 => \A c \in Caller : result[c] # "error"

\* Two callers of FirstOrCreate are not both told that they created the row
\* of a key, when a unique index decides it, rows deleted softly or not.
CreatedOnce ==
    setup.unique =>
        \A c, d \in Caller :
            c # d /\ result[c] = "created" /\ result[d] = "created" => At(c) # At(d)

\* When RunAll returns nil, all the settings are there, whatever runs failed
\* before or go on beside it.
SeedComplete ==
    removed = 0 =>
        \A c \in Caller :
            result[c] = "ok" =>
                \A p \in DOMAIN Job(c).keys : Live(Job(c).keys[p]) # {}

\* RunAll stops at the first error: what failed and crashed runs of one seeder
\* leave behind is a beginning of its list, and nothing else.
SeedsInOrder ==
    removed = 0 =>
        \A c \in Caller :
            (\A d \in Caller : d # c => Job(d) = Idle) =>
                \E n \in 0 .. Len(Job(c).keys) :
                    \A k \in Key : Live(k) # {} <=> \E p \in 1 .. n : Job(c).keys[p] = k

=============================================================================
