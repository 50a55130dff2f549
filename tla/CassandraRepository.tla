------------------------ MODULE CassandraRepository ------------------------
(***************************************************************************)
(* repositories/cassandra_repository.go and models/helper_cassandra.go:    *)
(* UniqueCreate, Save and Delete of an entity between its hooks, and the   *)
(* reading of a partition page by page, while others write.                *)
(*                                                                         *)
(* The cluster is modelled as the code uses it: a statement takes effect   *)
(* at one instant, and its answer may be lost; a page begins after the row *)
(* its paging state names.  Rows hold nothing but their key and whether    *)
(* they expire.                                                            *)
(***************************************************************************)
EXTENDS Integers, Sequences, FiniteSets

CONSTANTS
    Key,        \* primary keys: a partition and a clustering key
    Caller,     \* goroutines that write
    Reader,     \* clients that read pages
    Calls,      \* the calls of a repository: an operation, a key, what its type declares
    Shapes,     \* how a reader asks for its pages
    MaxFaults,  \* bound on lost answers, refused statements, bad rows and hooks that fail
    None        \* no row; no paging state; a call that has not returned

ASSUME KeyAssumption ==
    /\ Key \subseteq Nat \X (Nat \ {0}) /\ IsFiniteSet(Key) /\ MaxFaults \in Nat
    /\ None \notin Key \cup {"nil", "not applied", "error"} \cup [expires : BOOLEAN]

\* The key columns of the table, named by their kind in the metadata.
KeyColumns == {"partition_key", "clustering"}

ASSUME CallAssumption ==
    \A new \in Calls :
        /\ new.op \in {"create", "save", "delete"} /\ new.key \in Key
        /\ new.model.columns \subseteq KeyColumns

\* A limit of 0, or less, is none.
ASSUME ShapeAssumption ==
    None \notin Shapes /\ Shapes \subseteq [by : {"token", "builder", "result"}, limit : Int]

VARIABLES
    table,      \* the row of each key
    call,       \* the last call of each caller
    reader,     \* the pages each reader has read
    faults

vars == <<table, call, reader, faults>>

Rows == {k \in Key : table[k] # None}

Idle == [op |-> "none", key |-> None, model |-> None, step |-> "returned",
         applied |-> FALSE, out |-> None, blame |-> "nothing"]

NotReading == [shape |-> None, part |-> 0, opts |-> <<>>, next |-> None, got |-> {},
               twice |-> FALSE, stable |-> {}, bad |-> FALSE, phase |-> "idle"]

TypeOK ==
    /\ table \in [Key -> {None} \cup [expires : BOOLEAN]]
    /\ \A c \in Caller :
        /\ call[c].step \in {"statement", "post", "returned"}
        /\ call[c].out \in {None, "nil", "not applied", "error"}
        /\ call[c].step # "returned" => call[c].out = None
    /\ \A r \in Reader :
        /\ reader[r].phase \in {"idle", "reading", "end"}
        /\ reader[r].got \cup reader[r].stable \subseteq Key
        /\ reader[r].next \in {None} \cup Key
    /\ faults \in 0 .. MaxFaults

Init ==
    /\ table \in [Key -> {None} \cup [expires : {FALSE}]]
    /\ call = [c \in Caller |-> Idle]
    /\ reader = [r \in Reader |-> NotReading]
    /\ faults = 0

Fault == faults < MaxFaults /\ faults' = faults + 1
NoFault == UNCHANGED faults

\* The rows that are gone are no longer there for a reader to find.
Store(new) ==
    /\ table' = new
    /\ reader' = [r \in Reader |->
        [reader[r] EXCEPT !.stable = {k \in @ : new[k] # None}]]

-----------------------------------------------------------------------------
(* Statements                                                              *)

\* SaveQuery: every column, with USING TTL whenever the type has an EntityTTL,
\* if only 0, and "USING TIMESTAMP = n", which is no CQL, for a timestamp.
UsesTTL(m) == m.ttl # None
Parses(m) == m.timestamp = 0
Row(m) == [expires |-> UsesTTL(m) /\ m.ttl > 0]

Value(k, column) == IF column = "partition_key" THEN k[1] ELSE k[2]

\* Faulty variant: the columns of kind partition_key only.
DeleteQueryPartition(k, m) == {j \in Key : "partition_key" \in m.columns => j[1] = k[1]}

\* DeleteQuery: the rows equal in those columns of kind partition_key or
\* clustering for which the struct has a field that can be set and a cql tag.
DeleteQuery(k, m) == {j \in Key : \A f \in m.columns : Value(j, f) = Value(k, f)}

\* What Cassandra takes: an INSERT names the whole key, a DELETE the partition.
Accepted(op, m) ==
    IF op = "delete" THEN "partition_key" \in m.columns
    ELSE Parses(m) /\ m.columns = KeyColumns

\* Faulty variant: a call that has an answer goes on.
ReturnGoingOn(c, out, blame) == [call[c] EXCEPT !.out = out, !.blame = blame]

Return(c, out, blame) ==
    [call[c] EXCEPT !.op = "none", !.key = None, !.model = None, !.step = "returned",
                    !.out = out, !.blame = blame]

Become(c, state) == call' = [call EXCEPT ![c] = state]

\* PreSave and PreDelete come first; then a type with a TTL cannot be created
\* uniquely, and one whose table is not in the metadata cannot be deleted.
Begin(c, new) ==
    LET m == new.model
        refused == (new.op = "create" /\ UsesTTL(m)) \/ (new.op = "delete" /\ ~m.metadata)
        failed == [Idle EXCEPT !.out = "error"]
    IN
    /\ call[c].step = "returned"
    /\ \/ Fault /\ Become(c, failed)
       \/ NoFault /\ Become(c, IF refused THEN failed
                               ELSE [Idle EXCEPT !.op = new.op, !.key = new.key, !.model = m, !.step = "statement"])
    /\ UNCHANGED <<table, reader>>

\* What a statement does to the table: INSERT ... IF NOT EXISTS, INSERT, DELETE.
Applies(c) == call[c].op = "create" => table[call[c].key] = None

Effect(c) ==
    LET killed == DeleteQuery(call[c].key, call[c].model) IN
    IF call[c].op = "delete" THEN [k \in Key |-> IF k \in killed THEN None ELSE table[k]]
    ELSE [table EXCEPT ![call[c].key] = Row(call[c].model)]

\* Faulty variant: the error of the iterator alone.
TryIgnoringApplied(applied, answered) == IF answered THEN "nil" ELSE "error"

\* _Try: without an answer that says [applied], it was not.
Try(applied, answered) == IF answered /\ applied THEN "nil" ELSE "not applied"

\* UniqueCreate asks _Try, Save and Delete the error of Exec.
Said(c, applied, answered) ==
    IF call[c].op = "create" THEN Try(applied, answered)
    ELSE IF answered THEN "nil" ELSE "error"

\* The statement takes effect and is answered; its post hook is next, if it
\* went well.
Executed(c) ==
    /\ Accepted(call[c].op, call[c].model)
    /\ LET says == Said(c, Applies(c), TRUE)
           done == [call[c] EXCEPT !.applied = Applies(c)]
       IN  /\ Become(c, IF says = "nil" THEN [done EXCEPT !.step = "post"] ELSE Return(c, says, "nothing"))
           /\ Store(IF Applies(c) THEN Effect(c) ELSE table)
    /\ NoFault

\* The answer is lost, before or after the statement took effect; or the
\* statement is refused.
Unanswered(c) ==
    \/ /\ Fault
       /\ LET lost == Return(c, Said(c, FALSE, FALSE), "lost answer") IN
          \/ /\ Applies(c) /\ Accepted(call[c].op, call[c].model)
             /\ Store(Effect(c)) /\ Become(c, [lost EXCEPT !.applied = TRUE])
          \/ UNCHANGED <<table, reader>> /\ Become(c, lost)
    \/ /\ ~Accepted(call[c].op, call[c].model) /\ NoFault
       /\ Become(c, Return(c, Said(c, FALSE, FALSE), "nothing"))
       /\ UNCHANGED <<table, reader>>

Statement(c) == call[c].step = "statement" /\ (Executed(c) \/ Unanswered(c))

\* The error of PostSave or PostDelete is returned, though the row is stored.
PostHook(c) ==
    /\ call[c].step = "post"
    /\ \/ NoFault /\ Become(c, Return(c, "nil", "nothing"))
       \/ Fault /\ Become(c, Return(c, "error", "post hook"))
    /\ UNCHANGED <<table, reader>>

Expire(k) ==
    /\ table[k] # None /\ table[k].expires
    /\ Store([table EXCEPT ![k] = None])
    /\ UNCHANGED <<call, faults>>

-----------------------------------------------------------------------------
(* Pages                                                                   *)

Limit(n) == [kind |-> "limit", value |-> n]
NextTo(state) == [kind |-> "next", value |-> state]

\* The query before its options: the driver fetches page after page itself.
Query == [auto |-> TRUE, state |-> None, size |-> Cardinality(Key) + 1]

\* Faulty variant: a limit always resets the paging state.
OperateResetting(q, opt) ==
    IF opt.kind = "limit" THEN [auto |-> FALSE, state |-> None, size |-> opt.value]
    ELSE [q EXCEPT !.auto = FALSE, !.state = opt.value]

\* Operate of CassandraQueryLimit and CassandraQueryNext: a limit ends automatic
\* paging, and keeps the paging state that an option before it has set.
Operate(q, opt) ==
    IF opt.kind = "limit"
    THEN IF opt.value > 0 THEN [q EXCEPT !.auto = FALSE, !.size = opt.value] ELSE q
    ELSE IF opt.value # None THEN [q EXCEPT !.auto = FALSE, !.state = opt.value] ELSE q

\* The options one after the other.
PrepareQuery(opts) ==
    LET query[i \in 0 .. Len(opts)] ==
            IF i = 0 THEN Query ELSE Operate(query[i - 1], opts[i])
    IN  query[Len(opts)]

\* The options of a page: by DefaultCassandraQueryOption and a token, by the
\* builder's Limit and Next, or by the last result's Next().
DefaultOptions(next, n) == <<NextTo(next), Limit(n)>>

BuilderOptions(next, n) ==
    LET limits == IF n > 0 THEN <<Limit(n)>> ELSE <<>> IN
    IF next = None THEN limits ELSE Append(limits, NextTo(next))

\* Without those that set a paging state.
Others(opts) ==
    LET kept[i \in 0 .. Len(opts)] ==
            IF i = 0 THEN <<>>
            ELSE IF opts[i].kind = "next" THEN kept[i - 1] ELSE Append(kept[i - 1], opts[i])
    IN  kept[Len(opts)]

NextOptions(opts, next) == Append(Others(opts), NextTo(next))

Options(r) ==
    LET s == reader[r].shape
        next == reader[r].next
    IN  IF s.by = "token" THEN DefaultOptions(next, s.limit)
        ELSE IF s.by = "result" /\ next # None THEN NextOptions(reader[r].opts, next)
        ELSE BuilderOptions(next, s.limit)

\* The rows after the paging state, in clustering order.
After(part, state) ==
    {k \in Rows : k[1] = part /\ (state # None => k[2] > state[2])}

FirstOf(n, ks) == {k \in ks : Cardinality({j \in ks : j[2] < k[2]}) < n}
LastOf(ks) == CHOOSE k \in ks : \A j \in ks : j[2] <= k[2]

\* The rows of a page, and the state for the next one: Cassandra may give one
\* after a full page that was the last.
Page(q, part) ==
    LET rest == After(part, q.state)
        page == IF q.auto THEN rest ELSE FirstOf(q.size, rest)
    IN  {[rows |-> page, next |-> n] : n \in
            IF q.auto \/ Cardinality(page) < q.size THEN {None}
            ELSE IF page = rest THEN {None, LastOf(page)} ELSE {LastOf(page)}}

Open(r, shape, part) ==
    /\ reader[r].phase # "reading"
    /\ reader' = [reader EXCEPT ![r] = [NotReading EXCEPT !.phase = "reading",
            !.shape = shape, !.part = part, !.stable = {k \in Rows : k[1] = part}]]
    /\ UNCHANGED <<table, call, faults>>

\* CassandraQueryFinalize: the rows up to the first that cannot be scanned; an
\* error is logged by CassandraCloseIter, and looks like the end.
Fetch(r) ==
    LET opts == Options(r)
        Takes(rows, next, bad) ==
            reader' = [reader EXCEPT ![r] = [reader[r] EXCEPT
                !.opts = opts, !.next = next, !.got = @ \cup rows,
                !.twice = @ \/ rows \cap reader[r].got # {}, !.bad = @ \/ bad,
                !.phase = IF next = None THEN "end" ELSE "reading"]]
    IN
    /\ reader[r].phase = "reading"
    /\ \/ \E p \in Page(PrepareQuery(opts), reader[r].part) :
            \/ Takes(p.rows, p.next, FALSE) /\ NoFault
            \/ \E n \in 0 .. Cardinality(p.rows) - 1 :
                Takes(FirstOf(n, p.rows), p.next, TRUE) /\ Fault
       \/ Takes({}, None, TRUE) /\ Fault
    /\ UNCHANGED <<table, call>>

Next ==
    \/ \E c \in Caller :
        \/ \E new \in Calls : Begin(c, new)
        \/ Statement(c) \/ PostHook(c)
    \/ \E k \in Key : Expire(k)
    \/ \E r \in Reader :
        \/ \E s \in Shapes, k \in Key : Open(r, s, k[1])
        \/ Fetch(r)

Spec == Init /\ [][Next]_vars

(***************************************************************************)
(* Correctness                                                             *)
(***************************************************************************)

\* UniqueCreate, Save and Delete return nil only if their statement took
\* effect, so that of two creators one at most is told nil; an error means that
\* it did not, unless an answer was lost or a post hook failed.
Told ==
    \A c \in Caller :
        /\ call[c].out = "nil" => call[c].applied
        /\ call[c].out \in {"not applied", "error"} =>
            ~call[c].applied \/ call[c].blame \in {"lost answer", "post hook"}

\* A row that does not expire is lost only to the DELETE of a caller that names
\* it: no other statement, answered or lost, removes it.  A struct without a
\* field for the clustering column names its whole partition, and no struct
\* reaches into another (cassandra_repository.go:152).
RowsRemain ==
    [][\A k \in Rows : table'[k] = None =>
        \/ table[k].expires
        \/ \E c \in Caller :
            /\ call[c].op = "delete" /\ call[c].step = "statement" /\ call'[c] # call[c]
            /\ \/ k = call[c].key
               \/ k[1] = call[c].key[1] /\ "clustering" \notin call[c].model.columns]_vars

\* However the pages are asked for, no row is read twice, and the end is not
\* reached before every row that was there all the time has been read -- unless
\* a query failed or a row could not be scanned.
PagesExact ==
    \A r \in Reader :
        /\ ~reader[r].twice
        /\ reader[r].phase = "end" /\ ~reader[r].bad => reader[r].stable \subseteq reader[r].got

=============================================================================
