---------------------------- MODULE LazyLoading ----------------------------
(***************************************************************************)
(* Associations of models/helper_lazy.go: an accessor loads an association *)
(* on first use and caches it in the model (LazyHasMany, LazyHasOne,       *)
(* LazyBelongsTo), Eager options load it for a whole page of models with   *)
(* one IN query, Reload and ReloadAll read the columns of models again.    *)
(*                                                                         *)
(* A behaviour looks at one association: a model caches each of its        *)
(* associations on its own.  `log' is the history of the database; a query *)
(* reads any state of it, since queriers read database.Reader(), which may *)
(* be a replica.                                                           *)
(***************************************************************************)
EXTENDS Integers, Sequences, FiniteSets

CONSTANTS
    Owner, Child,   \* primary keys of the models with the field, and of those it holds
    Setups,         \* the association, the queriers and the database
    MaxWrites,      \* bound on the changes of the database
    MaxFaults,      \* bound on failed queries
    Gone,           \* the row of a key that is not in its table
    Nil,            \* a nil pointer in a column
    None            \* no model in memory; no querier

ASSUME ModelAssumption ==
    /\ Owner \cup Child \subseteq Nat \ {0} /\ Owner \cap Child = {}
    /\ {MaxWrites, MaxFaults} \subseteq Nat

\* An accessor indexes the references by the foreign keys and panics if there are
\* fewer; a belongs-to is one column with a primary key, and has no scope.
ASSUME SetupAssumption ==
    \A s \in Setups :
        /\ s.kind \in {"many", "one", "belongs"}
        /\ s.fk \in Seq(STRING) \ {<<>>} /\ Len(s.fk) <= Len(IF s.refs = <<>> THEN <<"ID">> ELSE s.refs)
        /\ s.kind = "belongs" => Len(s.fk) = 1 /\ s.refs \in {<<>>, <<"ID">>} /\ s.scope = {}
        /\ DOMAIN s.start = Owner \cup Child

VARIABLES
    setup,
    log,        \* the states of the database, the newest last
    mem,        \* the models in memory: columns, and the cached association
    call,       \* the last call: what it asked, and what it said
    faults

vars == <<setup, log, mem, call, faults>>

Loaded == {o \in Owner : mem[o] # None}

\* The types, and the table of the model: a row in memory is a row, not Gone.
TypeOK ==
    /\ setup \in Setups
    /\ Len(log) \in 1 .. MaxWrites + 1
    /\ \A v \in DOMAIN log : DOMAIN log[v] = Owner \cup Child
    /\ \A o \in Loaded :
        /\ mem[o].row # Gone /\ mem[o].at \in DOMAIN log
        /\ \A c \in mem[o].cache : c.val \subseteq Child /\ c.at \in DOMAIN log
    /\ call.items \subseteq Owner /\ call.ok \in BOOLEAN
    /\ faults \in 0 .. MaxFaults

Init ==
    /\ setup \in Setups
    /\ log = <<setup.start>>
    /\ mem = [o \in Owner |-> None]
    /\ call = [op |-> "none", items |-> {}, ok |-> TRUE, seen |-> <<>>]
    /\ faults = 0

-----------------------------------------------------------------------------
(* Tags and queriers                                                       *)

\* What the tags say: references defaults to the primary key.
Refs == IF setup.refs = <<>> THEN <<"ID">> ELSE setup.refs
Composite == Len(setup.fk) > 1
Scoped == setup.scope # {}

Get(id, row, col) == IF col = "ID" THEN id ELSE row[col]
Columns(id, row, cols) == [i \in DOMAIN cols |-> Get(id, row, cols[i])]

\* The value of the association's key in a model, one reference for each foreign
\* key, and in a row it may hold.
Key(o, row) ==
    IF setup.kind = "belongs" THEN Columns(o, row, setup.fk)
                              ELSE [i \in DOMAIN setup.fk |-> Get(o, row, Refs[i])]
ForeignKey(c, row) == Columns(c, row, IF setup.kind = "belongs" THEN Refs ELSE setup.fk)

NilKey(key) == \E i \in DOMAIN key : key[i] = Nil
ZeroKey(key) == \E i \in DOMAIN key : key[i] = 0

\* A nil reference needs no query, nor does ResolveById of a zero key.
Asks(key) == ~NilKey(key) /\ (setup.kind = "belongs" => ~ZeroKey(key))

\* The querier of a type: its own, or the default one; `can' is what it implements.
Querier(type) == IF setup.own[type] # None THEN setup.own[type] ELSE setup.default
Can(type, what) == Querier(type) # None /\ what \in Querier(type)

\* The scope's conditions: an operator that is not supported is skipped.
InScope(row) == \A c \in setup.scope : c.op = "eq" => row[c.column] = c.value

\* WHERE (fk, ...) IN keys AND scope, in a state of the database.
Select(db, keys) ==
    {c \in Child : db[c] # Gone /\ ForeignKey(c, db[c]) \in keys /\ InScope(db[c])}

Lowest(ids) == {i \in ids : \A j \in ids : i <= j}

Fails == faults < MaxFaults /\ faults' = faults + 1
Works == UNCHANGED faults

\* A field that is filled: one answer; {} is a field that is not.
Cached(val, v, key, failed) ==
    {[val |-> val, at |-> v, key |-> key, failed |-> failed, over |-> FALSE]}

\* The call has been answered; it read the states `seen'.
Said(op, items, ok, seen) ==
    call' = [op |-> op, items |-> items, ok |-> ok, seen |-> seen]

-----------------------------------------------------------------------------
(* The accessors                                                           *)

\* The interface a load needs: a scope or a composite key takes another path.
OneQuery == IF Composite \/ Scoped THEN "composite" ELSE "lazy"
BatchQuery == IF Composite \/ Scoped THEN "compositeBatch" ELSE "batch"

\* What one lazy query finds: all rows, or First of them.
Find1(db, key) ==
    IF setup.kind = "many" THEN Select(db, {key}) ELSE Lowest(Select(db, {key}))

\* LazyHasMany remembers an empty answer; LazyHasOne and LazyBelongsTo do not.
Remember(found) == setup.kind = "many" \/ found # {}

\* The query of an accessor fails, or there is no querier for it: the caller
\* gets nothing and nothing is cached.
LazyFails(o) ==
    /\ IF Can("child", OneQuery) THEN Fails ELSE Works
    /\ Said("lazy", {o}, FALSE, <<>>)
    /\ UNCHANGED mem

\* What an accessor finds in a state of the database goes into the cache.
LazyReads(o, key) ==
    /\ Can("child", OneQuery)
    /\ \E v \in DOMAIN log :
        LET found == Find1(log[v], key) IN
        mem' = IF Remember(found)
               THEN [mem EXCEPT ![o].cache = Cached(found, v, key, FALSE)] ELSE mem
    /\ Said("lazy", {o}, TRUE, <<>>) /\ Works

\* Without a query, a has-many remembers that there is nothing.
LazySkips(o, key) ==
    /\ mem' = IF setup.kind = "many"
              THEN [mem EXCEPT ![o].cache = Cached({}, Len(log), key, FALSE)] ELSE mem
    /\ Said("lazy", {o}, TRUE, <<>>) /\ Works

\* The accessor of a model: Tags(), Setting().
Lazy(o) ==
    /\ mem[o] # None /\ mem[o].cache = {}
    /\ LET key == Key(o, mem[o].row) IN
        \/ Asks(key) /\ (LazyFails(o) \/ LazyReads(o, key))
        \/ ~Asks(key) /\ LazySkips(o, key)
    /\ UNCHANGED <<setup, log>>

-----------------------------------------------------------------------------
(* Batches                                                                 *)

\* Faulty variant: a model with the key of another one is left out.
OpenOncePerKey(items) ==
    {o \in items : LET key == Key(o, mem[o].row) IN
        /\ mem[o].cache = {} /\ ~NilKey(key) /\ ~ZeroKey(key)
        /\ \A p \in items : Key(p, mem[p].row) = key => o <= p}

\* The models a batch asks for.
Open(items) ==
    {o \in items : LET key == Key(o, mem[o].row) IN
        mem[o].cache = {} /\ ~NilKey(key) /\ ~ZeroKey(key)}

\* Faulty variant: one column of the key.
GroupByFirst(rows, db, key) == {c \in rows : ForeignKey(c, db[c])[1] = key[1]}

\* Who gets what: rows are grouped by their foreign key.
Group(rows, db, key) == {c \in rows : ForeignKey(c, db[c]) = key}

Fill(o, val, v, failed) ==
    [mem[o] EXCEPT !.cache = Cached(val, v, Key(o, mem[o].row), failed)]

\* A record that is not found is not cached (SetCache(nil)); an error ends it.
EagerBelongsTo(items, todo) ==
    \/ Fails /\ Said("eager", {}, FALSE, <<>>) /\ UNCHANGED mem
    \/ /\ \E v \in DOMAIN log :
            LET rows == Select(log[v], {Key(o, mem[o].row) : o \in todo})
                val(o) == Group(rows, log[v], Key(o, mem[o].row))
            IN  mem' = [o \in Owner |-> IF o \in todo /\ val(o) # {}
                                        THEN Fill(o, val(o), v, FALSE) ELSE mem[o]]
       /\ Said("eager", items, TRUE, <<>>) /\ Works

\* After an error it goes on with no rows: every model gets an empty slice.
EagerHasMany(items, todo) ==
    \/ /\ mem' = [o \in Owner |-> IF o \in todo THEN Fill(o, {}, Len(log), TRUE) ELSE mem[o]]
       /\ Said("eager", {}, FALSE, <<>>) /\ Fails
    \/ /\ \E v \in DOMAIN log :
            LET rows == Select(log[v], {Key(o, mem[o].row) : o \in todo}) IN
            mem' = [o \in Owner |-> IF o \in todo
                THEN Fill(o, Group(rows, log[v], Key(o, mem[o].row)), v, FALSE) ELSE mem[o]]
       /\ Said("eager", items, TRUE, <<>>) /\ Works

\* An Eager or EagerAll option is applied to the models of a page; a field of
\* kind "one" is none of its cases, and a count of tags that differ is ignored.
Eager(items) ==
    LET todo == Open(items) IN
    /\ items # {} /\ setup.kind # "one"
    /\ IF todo # {} /\ Can("child", BatchQuery) /\ (setup.kind = "many" => Len(Refs) = Len(setup.fk))
       THEN IF setup.kind = "belongs" THEN EagerBelongsTo(items, todo)
                                      ELSE EagerHasMany(items, todo)
       ELSE Said("eager", {}, TRUE, <<>>) /\ Works /\ UNCHANGED mem
    /\ UNCHANGED <<setup, log>>

\* Find and Fetch: new models, without caches.
Find(items) ==
    /\ \E v \in DOMAIN log :
        /\ items \subseteq {o \in Owner : log[v][o] # Gone}
        /\ mem' = [o \in Owner |->
            IF o \in items THEN [row |-> log[v][o], at |-> v, cache |-> {}] ELSE None]
    /\ items # {}
    /\ Said("find", items, TRUE, <<>>)
    /\ UNCHANGED <<setup, log, faults>>

-----------------------------------------------------------------------------
(* Reload                                                                  *)

\* First(dest, id) overwrites the columns in place: the cache is no column.
InPlace(o, v) ==
    [row |-> log[v][o], at |-> v,
     cache |-> {[c EXCEPT !.over = TRUE] : c \in mem[o].cache}]

Reload(o) ==
    /\ mem[o] # None
    /\ \/ \E v \in DOMAIN log :
            /\ Can("owner", "lazy") /\ log[v][o] # Gone
            /\ mem' = [mem EXCEPT ![o] = InPlace(o, v)]
            /\ Said("reload", {o}, TRUE, [p \in {o} |-> v]) /\ Works
       \/ \* no querier, or the row is gone
          /\ ~Can("owner", "lazy") \/ \E v \in DOMAIN log : log[v][o] = Gone
          /\ Said("reload", {o}, FALSE, <<>>) /\ Works /\ UNCHANGED mem
       \/ /\ Can("owner", "lazy")
          /\ Fails /\ Said("reload", {o}, FALSE, <<>>) /\ UNCHANGED mem
    /\ UNCHANGED <<setup, log>>

\* Faulty variants: a row that is gone is copied, too; rows and models are
\* matched by their places.
MergeMissing(o, v) == [row |-> log[v][o], at |-> v, cache |-> {}]

MergeByPlace(o, v) ==
    LET rows == {p \in Loaded : log[v][p] # Gone}
        place == Cardinality({p \in Loaded : p < o})
        mine == {p \in rows : Cardinality({q \in rows : q < p}) = place}
    IN  IF mine # {}
        THEN [row |-> log[v][CHOOSE p \in mine : TRUE], at |-> v, cache |-> {}] ELSE mem[o]

\* The rows of an IN query overwrite the models with their primary key, the
\* caches with them; a model whose row is gone stays as it was.
Merge(o, v) ==
    IF log[v][o] # Gone THEN [row |-> log[v][o], at |-> v, cache |-> {}] ELSE mem[o]

ReloadBatch(items) ==
    \/ /\ Fails /\ Said("reload", items, FALSE, <<>>) /\ UNCHANGED mem
    \/ \E v \in DOMAIN log :
        /\ mem' = [o \in Owner |-> IF o \in items THEN Merge(o, v) ELSE mem[o]]
        /\ Said("reload", items, TRUE, [o \in items |-> v]) /\ Works

\* Faulty variant: a failure is skipped, not returned.
DoneSkipping(items, bad) == [reloaded |-> items \ bad, ok |-> TRUE]

\* Without a batch querier the models are reloaded one by one, up to an error.
Done(items, bad) ==
    [reloaded |-> {o \in items : \A p \in bad : o < p}, ok |-> bad = {}]

ReloadEach(items) ==
    \E read \in [items -> DOMAIN log], failed \in {{}} \cup {{o} : o \in items} :
        LET gone == {o \in items : log[read[o]][o] = Gone}
            done == Done(items, IF Can("owner", "lazy") THEN gone \cup failed ELSE items)
        IN  /\ failed # {} => Can("owner", "lazy")
            /\ mem' = [o \in Owner |->
                IF o \in done.reloaded THEN InPlace(o, read[o]) ELSE mem[o]]
            /\ Said("reload", items, done.ok, read)
            /\ IF failed = {} THEN Works ELSE Fails

ReloadAll(items) ==
    /\ items # {} /\ items \subseteq Loaded
    /\ IF Can("owner", "batch") THEN ReloadBatch(items) ELSE ReloadEach(items)
    /\ UNCHANGED <<setup, log>>

\* Somebody changes a row.
Write(id) ==
    /\ Len(log) <= MaxWrites
    /\ \E row \in setup.rows[id] :
        log' = Append(log, [log[Len(log)] EXCEPT ![id] = row])
    /\ UNCHANGED <<setup, mem, call, faults>>

Next ==
    \/ \E o \in Owner : Lazy(o) \/ Reload(o)
    \/ \E items \in SUBSET Owner : Find(items) \/ ReloadAll(items)
    \/ Eager(Loaded)
    \/ \E id \in Owner \cup Child : Write(id)

Spec == Init /\ [][Next]_vars

(***************************************************************************)
(* Correctness                                                             *)
(***************************************************************************)

\* The rows of an association by its definition: every column of the foreign
\* key is the reference's, and a nil matches nothing.
Association(db, key) ==
    {c \in Child : /\ db[c] # Gone /\ InScope(db[c])
                   /\ \A i \in DOMAIN key : key[i] # Nil /\ ForeignKey(c, db[c])[i] = key[i]}

\* Reload and ReloadAll never give a model the columns of another row.
ItsOwnRow == \A o \in Loaded : mem[o].row = log[mem[o].at][o]

\* Lazily or in a batch, a cached association is exactly what a state of the
\* database held for the key of this very model -- unless the batch query
\* failed (then it is empty) or Reload has changed the key under the cache.
CacheIsAQuery ==
    \A o \in Loaded : \A c \in mem[o].cache :
        /\ IF c.failed THEN c.val = {}
           ELSE c.val = IF setup.kind = "one" THEN Lowest(Association(log[c.at], c.key))
                        ELSE Association(log[c.at], c.key)
        /\ c.key = Key(o, mem[o].row) \/ c.over

\* After an Eager option that could query, no accessor of the page queries
\* again, but for nil and zero keys and for records that are not there.
EagerCovers ==
    call.op = "eager" /\ call.ok =>
        \A o \in call.items : LET key == Key(o, mem[o].row) IN
            \/ mem[o].cache # {}
            \/ NilKey(key) \/ ZeroKey(key)
            \/ (setup.kind = "belongs" /\ \E v \in DOMAIN log : Association(log[v], key) = {})

\* When Reload or ReloadAll returns no error, every model it was given has the
\* columns that this call read, or its row was gone.
ReloadTold ==
    call.op = "reload" /\ call.ok =>
        \A o \in call.items : LET v == call.seen[o] IN
            log[v][o] # Gone => mem[o].at = v

=============================================================================
