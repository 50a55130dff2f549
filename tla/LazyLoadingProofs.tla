-------------------------- MODULE LazyLoadingProofs --------------------------
(* Whose columns and whose association a model of LazyLoading has, and what    *)
(* Eager and Reload say of them, for any number of models, any association and *)
(* any queriers, and any changes of the database.                              *)
EXTENDS LazyLoading, SequenceTheorems, TLAPS

\* The call, the setup and the faults.
Typed ==
    /\ setup \in Setups
    /\ call.items \subseteq Owner /\ call.ok \in BOOLEAN
    /\ faults \in 0 .. MaxFaults

\* The history is one of databases that have every key.
Logged ==
    /\ \E S : log \in Seq(S)
    /\ Len(log) \in 1 .. MaxWrites + 1
    /\ \A v \in DOMAIN log : DOMAIN log[v] = Owner \cup Child

\* What the field has to hold for a key, in a state of the database.
Right(key, v) ==
    IF setup.kind = "one" THEN Lowest(Association(log[v], key)) ELSE Association(log[v], key)

\* A cached answer is one to the question that was asked.
Answered(c) ==
    /\ c = [val |-> c.val, at |-> c.at, key |-> c.key, failed |-> c.failed, over |-> c.over]
    /\ c.at \in DOMAIN log
    /\ IF c.failed THEN c.val = {} ELSE c.val = Right(c.key, c.at)

\* A model in memory has the columns of its own row, as some state of the
\* database had them, and its field was asked for with its own key.
Faithful(m, o) ==
    m # None =>
        /\ m = [row |-> m.row, at |-> m.at, cache |-> m.cache]
        /\ m.at \in DOMAIN log /\ m.row = log[m.at][o] /\ m.row # Gone
        /\ \A c \in m.cache : Answered(c) /\ (c.key = Key(o, m.row) \/ c.over)

\* The last call, if it was a reload that went well, has read states of the
\* database, and the models have what it read.
Reloaded ==
    call.op = "reload" /\ call.ok =>
        \A o \in call.items : LET v == call.seen[o] IN
            /\ o \in Owner /\ v \in DOMAIN log
            /\ log[v][o] # Gone => mem[o].at = v

IndInv ==
    /\ Typed /\ Logged
    /\ mem = [o \in Owner |-> mem[o]]
    /\ \A o \in Owner : Faithful(mem[o], o)
    /\ Reloaded /\ EagerCovers

-----------------------------------------------------------------------------
(* Keys                                                                    *)

Places == IF setup.kind = "belongs" THEN DOMAIN Refs ELSE DOMAIN setup.fk

\* The key of a model and that of a row it may hold have the same columns.
LEMMA KeysFit ==
    ASSUME setup \in Setups, NEW o, NEW row
    PROVE  /\ Key(o, row) = [i \in Places |-> Key(o, row)[i]]
           /\ ForeignKey(o, row) = [i \in Places |-> ForeignKey(o, row)[i]]
<1>1. CASE setup.kind = "belongs"
  <2>1. setup.fk \in Seq(STRING) /\ Len(setup.fk) = 1
    BY <1>1, SetupAssumption
  <2>2. DOMAIN setup.fk = 1 .. 1
    BY <2>1
  <2>3. Refs = <<"ID">>
    BY <1>1, SetupAssumption DEF Refs
  <2>4. DOMAIN Refs = 1 .. 1
    BY <2>3
  <2> QED
    BY <1>1, <2>2, <2>4 DEF Key, ForeignKey, Columns, Places
<1>2. CASE setup.kind # "belongs"
  BY <1>2 DEF Key, ForeignKey, Columns, Places
<1> QED
  BY <1>1, <1>2

\* One IN query and a comparison column by column find the same rows.
LEMMA SelectIsAssociation ==
    ASSUME setup \in Setups, NEW db, NEW o, NEW row, ~NilKey(Key(o, row))
    PROVE  Select(db, {Key(o, row)}) = Association(db, Key(o, row))
<1> DEFINE key == Key(o, row)
<1>1. key = [i \in Places |-> key[i]]
  BY KeysFit
<1>2. \A i \in DOMAIN key : key[i] # Nil
  BY DEF NilKey
<1>3. ASSUME NEW c
      PROVE  ForeignKey(c, db[c]) = key
             <=> \A i \in DOMAIN key : key[i] # Nil /\ ForeignKey(c, db[c])[i] = key[i]
  <2>1. ForeignKey(c, db[c]) = [i \in Places |-> ForeignKey(c, db[c])[i]]
    BY KeysFit
  <2> HIDE DEF key
  <2> QED
    BY <1>1, <1>2, <2>1
<1> HIDE DEF key
<1>4. Select(db, {key}) = Association(db, key)
  BY <1>3 DEF Select, Association
<1> QED
  BY <1>4 DEF key

\* Nothing belongs to a key with a nil in it.
LEMMA NilHasNothing ==
    ASSUME NEW db, NEW key, NilKey(key)
    PROVE  Association(db, key) = {}
BY DEF Association, NilKey

\* What a batch deals out to a model is what a query for the model alone finds.
LEMMA GroupIsSelect ==
    ASSUME NEW db, NEW keys, NEW key \in keys
    PROVE  Group(Select(db, keys), db, key) = Select(db, {key})
BY DEF Group, Select

\* A primary key has one row at most.
LEMMA OneOwner ==
    ASSUME setup \in Setups, setup.kind = "belongs", NEW db, NEW key
    PROVE  Lowest(Select(db, {key})) = Select(db, {key})
<1>1. Refs = <<"ID">>
  BY SetupAssumption DEF Refs
<1>2. ASSUME NEW c PROVE ForeignKey(c, db[c]) = [i \in {1} |-> c]
  BY <1>1 DEF ForeignKey, Columns, Get
<1>3. \A c, d \in Select(db, {key}) : c = d
  <2> SUFFICES ASSUME NEW c \in Select(db, {key}), NEW d \in Select(db, {key}) PROVE c = d
    OBVIOUS
  <2>1. ForeignKey(c, db[c]) = [i \in {1} |-> c] /\ ForeignKey(d, db[d]) = [i \in {1} |-> d]
    BY <1>2
  <2>2. ForeignKey(c, db[c]) = key /\ ForeignKey(d, db[d]) = key
    BY DEF Select
  <2>3. key = [i \in {1} |-> c] /\ key = [i \in {1} |-> d]
    BY <2>1, <2>2
  <2> QED
    BY <2>3
<1>4. Select(db, {key}) \subseteq Nat
  BY ModelAssumption DEF Select
<1> QED
  BY <1>3, <1>4 DEF Lowest

\* What an accessor finds is the association.
LEMMA FoundIsRight ==
    ASSUME setup \in Setups, NEW o, NEW row, NEW v, ~NilKey(Key(o, row))
    PROVE  Find1(log[v], Key(o, row)) = Right(Key(o, row), v)
<1>1. Select(log[v], {Key(o, row)}) = Association(log[v], Key(o, row))
  BY SelectIsAssociation
<1>2. setup.kind \in {"many", "one", "belongs"}
  BY SetupAssumption
<1> QED
  BY <1>1, <1>2, OneOwner DEF Find1, Right

-----------------------------------------------------------------------------
(* The steps                                                               *)

\* The setup never changes, nor does what depends on it alone.
LEMMA SetupStays ==
    ASSUME setup' = setup, NEW o, NEW row, NEW db, NEW key
    PROVE  /\ Key(o, row)' = Key(o, row)
           /\ Association(db, key)' = Association(db, key)
<1>1. Key(o, row)' = Key(o, row)
  BY DEF Key, Columns, Refs, Get
<1>2. \A c \in Child : ForeignKey(c, db[c])' = ForeignKey(c, db[c])
  BY DEF ForeignKey, Columns, Refs, Get
<1>3. \A c \in Child : InScope(db[c])' <=> InScope(db[c])
  BY DEF InScope
<1>4. Association(db, key)' = Association(db, key)
  BY <1>2, <1>3 DEF Association
<1> QED
  BY <1>1, <1>4

\* States of the database that are still there answer as before.
LEMMA RightStays ==
    ASSUME setup' = setup, NEW key, NEW v, log'[v] = log[v]
    PROVE  Right(key, v)' = Right(key, v)
BY SetupStays DEF Right, Lowest

LEMMA FaithfulStays ==
    ASSUME setup' = setup, DOMAIN log \subseteq DOMAIN log', \A v \in DOMAIN log : log'[v] = log[v],
           NEW m, NEW o, Faithful(m, o)
    PROVE  Faithful(m, o)'
<1>1. \A c : Answered(c) => Answered(c)'
  BY RightStays DEF Answered
<1> QED
  BY <1>1, SetupStays DEF Faithful

\* What a call that leaves the database alone owes to the invariant.
LEMMA ModelsOnly ==
    ASSUME IndInv, UNCHANGED <<setup, log>>, mem' = [o \in Owner |-> mem'[o]],
           \A o \in Owner : mem'[o] = mem[o] \/ Faithful(mem'[o], o),
           Typed', Reloaded', EagerCovers'
    PROVE  IndInv'
<1>1. \A o \in Owner : Faithful(mem'[o], o)
  BY DEF IndInv
<1>2. ASSUME NEW o \in Owner PROVE Faithful(mem[o], o)'
  <2>1. PICK m : m = mem'[o]
    OBVIOUS
  <2>2. Faithful(m, o)
    BY <1>1, <2>1
  <2>3. Faithful(m, o)'
    BY <2>2, FaithfulStays
  <2> QED
    BY <2>1, <2>3
<1>3. Logged'
  BY DEF IndInv, Logged
<1> QED
  BY <1>2, <1>3 DEF IndInv

\* What a call says has its type.
LEMMA CallTyped ==
    ASSUME IndInv, setup' = setup, Fails \/ Works,
           NEW op, NEW items \in SUBSET Owner, NEW ok \in BOOLEAN, NEW seen, Said(op, items, ok, seen)
    PROVE  Typed'
<1>1. faults' \in 0 .. MaxFaults
  BY ModelAssumption DEF IndInv, Typed, Fails, Works
<1>2. call'.items \subseteq Owner /\ call'.ok \in BOOLEAN
  BY DEF Said
<1> QED
  BY <1>1, <1>2 DEF IndInv, Typed

\* A call that is no reload says nothing about one, and so for Eager.
LEMMA OtherCall ==
    ASSUME NEW op, NEW items, NEW ok, NEW seen, Said(op, items, ok, seen)
    PROVE  /\ op # "reload" \/ ok = FALSE => Reloaded'
           /\ op # "eager" \/ ok = FALSE \/ items = {} => EagerCovers'
<1>1. op # "reload" \/ ok = FALSE => Reloaded'
  BY DEF Said, Reloaded
<1>2. op # "eager" \/ ok = FALSE \/ items = {} => EagerCovers'
  BY DEF Said, EagerCovers
<1> QED
  BY <1>1, <1>2

\* A field is filled with what was found for the model's own key.
LEMMA CacheOnly ==
    ASSUME IndInv, NEW o \in Owner, mem[o] # None, NEW val, NEW v \in DOMAIN log, NEW failed \in BOOLEAN,
           IF failed THEN val = {} ELSE val = Right(Key(o, mem[o].row), v)
    PROVE  /\ Faithful([mem[o] EXCEPT !.cache = Cached(val, v, Key(o, mem[o].row), failed)], o)
           /\ [mem[o] EXCEPT !.cache = Cached(val, v, Key(o, mem[o].row), failed)].row = mem[o].row
           /\ [mem[o] EXCEPT !.cache = Cached(val, v, Key(o, mem[o].row), failed)].cache # {}
<1> DEFINE key == Key(o, mem[o].row)
           cache == Cached(val, v, key, failed)
<1>1. mem[o] = [row |-> mem[o].row, at |-> mem[o].at, cache |-> mem[o].cache]
  BY DEF IndInv, Faithful
<1>2. [mem[o] EXCEPT !.cache = cache] = [row |-> mem[o].row, at |-> mem[o].at, cache |-> cache]
  BY <1>1
<1>3. mem[o].at \in DOMAIN log /\ mem[o].row = log[mem[o].at][o] /\ mem[o].row # Gone
  BY DEF IndInv, Faithful
<1>4. \A c \in cache : Answered(c) /\ c.key = key
  BY DEF Cached, Answered
<1>5. cache # {}
  BY DEF Cached
<1> HIDE DEF cache
<1>6. Faithful([mem[o] EXCEPT !.cache = cache], o)
  BY <1>2, <1>3, <1>4 DEF Faithful
<1>7. [mem[o] EXCEPT !.cache = cache].row = mem[o].row /\ [mem[o] EXCEPT !.cache = cache].cache # {}
  BY <1>2, <1>5
<1> QED
  BY <1>6, <1>7 DEF cache

LEMMA LastLog == IndInv => Len(log) \in DOMAIN log
BY DEF IndInv, Logged

\* Columns that are read in place mark the association as one of before.
LEMMA InPlaceFaithful ==
    ASSUME IndInv, NEW o \in Owner, mem[o] # None, NEW v \in DOMAIN log, log[v][o] # Gone
    PROVE  Faithful(InPlace(o, v), o) /\ InPlace(o, v).at = v
<1>1. \A c \in mem[o].cache : Answered(c)
  BY DEF IndInv, Faithful
<1>2. \A c \in mem[o].cache : Answered([c EXCEPT !.over = TRUE]) /\ [c EXCEPT !.over = TRUE].over
  <2> SUFFICES ASSUME NEW c \in mem[o].cache
               PROVE  Answered([c EXCEPT !.over = TRUE]) /\ [c EXCEPT !.over = TRUE].over
    OBVIOUS
  <2>1. PICK val, at, key, failed, over :
          c = [val |-> val, at |-> at, key |-> key, failed |-> failed, over |-> over]
    BY <1>1 DEF Answered
  <2> DEFINE new == [c EXCEPT !.over = TRUE]
  <2>2. new = [val |-> val, at |-> at, key |-> key, failed |-> failed, over |-> TRUE]
    <3>1. PICK true : true = TRUE
      OBVIOUS
    <3>2. [c EXCEPT !.over = true]
          = [val |-> val, at |-> at, key |-> key, failed |-> failed, over |-> true]
      BY <2>1
    <3> QED
      BY <3>1, <3>2
  <2>3. c.at \in DOMAIN log /\ IF c.failed THEN c.val = {} ELSE c.val = Right(c.key, c.at)
    BY <1>1 DEF Answered
  <2> HIDE DEF new
  <2>4. new = [val |-> new.val, at |-> new.at, key |-> new.key, failed |-> new.failed, over |-> new.over]
    BY <2>2
  <2>5. new.val = c.val /\ new.at = c.at /\ new.key = c.key
    BY <2>1, <2>2
  <2>6. new.failed = c.failed
    BY <2>1, <2>2
  <2>7. Answered(new)
    BY <2>3, <2>4, <2>5, <2>6 DEF Answered
  <2>8. new.over
    BY <2>2
  <2> QED
    BY <2>7, <2>8 DEF new
<1> DEFINE new == {[c EXCEPT !.over = TRUE] : c \in mem[o].cache}
<1>3. InPlace(o, v) = [row |-> log[v][o], at |-> v, cache |-> new]
  BY DEF InPlace
<1>4. \A c \in new : Answered(c) /\ c.over
  BY <1>2
<1> HIDE DEF new
<1> QED
  BY <1>3, <1>4 DEF Faithful

LEMMA MergeFaithful ==
    ASSUME NEW o \in Owner, NEW v \in DOMAIN log
    PROVE  /\ Merge(o, v) = mem[o] \/ Faithful(Merge(o, v), o)
           /\ log[v][o] # Gone => Merge(o, v).at = v
BY DEF Merge, Faithful

LEMMA InitInv == Init => IndInv
<1> SUFFICES ASSUME Init PROVE IndInv
  OBVIOUS
<1>1. log \in Seq({setup.start}) /\ log = <<setup.start>>
  BY DEF Init
<1>2. mem = [o \in Owner |-> mem[o]] /\ \A o \in Owner : mem[o] = None
  BY DEF Init
<1>3. Reloaded /\ EagerCovers
  BY DEF Init, Reloaded, EagerCovers
<1>4. Typed
  BY ModelAssumption DEF Init, Typed
<1>5. DOMAIN setup.start = Owner \cup Child
  BY SetupAssumption DEF Init
<1>6. Len(log) = 1 /\ DOMAIN log = {1} /\ log[1] = setup.start
  BY <1>1
<1>7. \E S : log \in Seq(S)
  BY <1>1
<1>8. Len(log) \in 1 .. MaxWrites + 1
  BY <1>6, ModelAssumption
<1>9. Logged
  BY <1>5, <1>6, <1>7, <1>8 DEF Logged
<1> QED
  BY <1>2, <1>3, <1>4, <1>9 DEF IndInv, Faithful

LEMMA LazyInv ==
    ASSUME IndInv, NEW o \in Owner, Lazy(o)
    PROVE  IndInv'
<1> DEFINE key == Key(o, mem[o].row)
<1>1. UNCHANGED <<setup, log>> /\ mem[o] # None
  BY DEF Lazy
<1>2. setup \in Setups
  BY DEF IndInv, Typed
<1>3. PICK ok \in BOOLEAN : Said("lazy", {o}, ok, <<>>)
  BY DEF Lazy, LazyFails, LazyReads, LazySkips
<1>4. Typed' /\ Reloaded' /\ EagerCovers'
  <2>1. Fails \/ Works
    BY DEF Lazy, LazyFails, LazyReads, LazySkips
  <2> QED
    BY <1>1, <1>3, <2>1, CallTyped, OtherCall
<1>5. CASE mem' = mem
  BY <1>1, <1>4, <1>5, ModelsOnly DEF IndInv
<1>6. ASSUME NEW val, NEW v \in DOMAIN log, val = Right(key, v),
             mem' = [mem EXCEPT ![o].cache = Cached(val, v, key, FALSE)]
      PROVE  IndInv'
  <2> DEFINE new == [mem[o] EXCEPT !.cache = Cached(val, v, key, FALSE)]
  <2>1. Faithful(new, o)
    BY <1>1, <1>6, CacheOnly
  <2>2. mem' = [p \in Owner |-> IF p = o THEN new ELSE mem[p]]
    BY <1>6 DEF IndInv
  <2> HIDE DEF new
  <2>3. \A p \in Owner : mem'[p] = mem[p] \/ Faithful(mem'[p], p)
    BY <2>1, <2>2
  <2>4. mem' = [p \in Owner |-> mem'[p]]
    BY <2>2
  <2> QED
    BY <1>1, <1>4, <2>3, <2>4, ModelsOnly
<1>7. ASSUME Asks(key), LazyReads(o, key) PROVE IndInv'
  <2>1. PICK v \in DOMAIN log :
          mem' = IF Remember(Find1(log[v], key))
                 THEN [mem EXCEPT ![o].cache = Cached(Find1(log[v], key), v, key, FALSE)] ELSE mem
    BY <1>7 DEF LazyReads
  <2>2. Find1(log[v], key) = Right(key, v)
    BY <1>2, <1>7, FoundIsRight DEF Asks
  <2> QED
    BY <1>5, <1>6, <2>1, <2>2
<1>8. ASSUME ~Asks(key), LazySkips(o, key) PROVE IndInv'
  <2>1. CASE setup.kind = "many"
    <3>1. Right(key, Len(log)) = {}
      BY <1>8, <2>1, NilHasNothing DEF Asks, Right
    <3>2. mem' = [mem EXCEPT ![o].cache = Cached({}, Len(log), key, FALSE)]
      BY <1>8, <2>1 DEF LazySkips
    <3> QED
      BY <1>6, <3>1, <3>2, LastLog
  <2> QED
    BY <1>5, <1>8, <2>1 DEF LazySkips
<1> QED
  BY <1>5, <1>7, <1>8 DEF Lazy, LazyFails

\* The answer of an IN query, dealt out to the models of a page.
LEMMA BatchIsRight ==
    ASSUME setup \in Setups, setup.kind # "one", NEW items, NEW o \in Open(items), NEW v,
           NEW rows, rows = Select(log[v], {Key(p, mem[p].row) : p \in Open(items)})
    PROVE  Group(rows, log[v], Key(o, mem[o].row)) = Right(Key(o, mem[o].row), v)
<1> DEFINE key == Key(o, mem[o].row)
           keys == {Key(p, mem[p].row) : p \in Open(items)}
<1>1. ~NilKey(key) /\ key \in keys
  BY DEF Open
<1>2. Select(log[v], {key}) = Association(log[v], key)
  BY <1>1, SelectIsAssociation
<1> HIDE DEF key, keys
<1>3. Group(Select(log[v], keys), log[v], key) = Association(log[v], key)
  BY <1>1, <1>2, GroupIsSelect
<1>4. rows = Select(log[v], keys)
  BY DEF keys
<1>5. Group(rows, log[v], key) = Right(key, v)
  BY <1>3, <1>4 DEF Right
<1> QED
  BY <1>5 DEF key

\* A model whose field an Eager option has filled is as it should be.
LEMMA FillFaithful ==
    ASSUME IndInv, NEW o \in Loaded, NEW v \in DOMAIN log, NEW failed \in BOOLEAN, NEW val,
           IF failed THEN val = {} ELSE val = Right(Key(o, mem[o].row), v)
    PROVE  /\ Faithful(Fill(o, val, v, failed), o)
           /\ Fill(o, val, v, failed).row = mem[o].row /\ Fill(o, val, v, failed).cache # {}
BY CacheOnly DEF Loaded, Fill

LEMMA OpenIsLoaded == Open(Loaded) \subseteq Loaded /\ Loaded \subseteq Owner
BY DEF Open, Loaded

LEMMA EagerBelongsToInv ==
    ASSUME IndInv, UNCHANGED <<setup, log>>, setup.kind = "belongs",
           EagerBelongsTo(Loaded, Open(Loaded))
    PROVE  IndInv'
<1> DEFINE todo == Open(Loaded)
<1>1. setup \in Setups
  BY DEF IndInv, Typed
<1>2. CASE Fails /\ Said("eager", {}, FALSE, <<>>) /\ UNCHANGED mem
  <2>1. Typed' /\ Reloaded' /\ EagerCovers'
    BY <1>2, CallTyped, OtherCall
  <2> QED
    BY <1>2, <2>1, ModelsOnly DEF IndInv
<1>3. CASE ~(Fails /\ Said("eager", {}, FALSE, <<>>) /\ UNCHANGED mem)
  <2>1. PICK v \in DOMAIN log :
          LET rows == Select(log[v], {Key(o, mem[o].row) : o \in todo})
              val(o) == Group(rows, log[v], Key(o, mem[o].row))
          IN  mem' = [o \in Owner |-> IF o \in todo /\ val(o) # {}
                                      THEN Fill(o, val(o), v, FALSE) ELSE mem[o]]
    BY <1>3 DEF EagerBelongsTo
  <2> DEFINE rows == Select(log[v], {Key(o, mem[o].row) : o \in todo})
             val(o) == Group(rows, log[v], Key(o, mem[o].row))
  <2>2. mem' = [o \in Owner |-> IF o \in todo /\ val(o) # {} THEN Fill(o, val(o), v, FALSE) ELSE mem[o]]
    BY <2>1
  <2>3. Said("eager", Loaded, TRUE, <<>>) /\ Works
    BY <1>3 DEF EagerBelongsTo
  <2>4. Typed' /\ Reloaded'
    <3>1. Reloaded'
      BY <2>3 DEF Said, Reloaded
    <3>2. Loaded \in SUBSET Owner /\ TRUE \in BOOLEAN
      BY OpenIsLoaded
    <3>3. Typed'
      BY <2>3, <3>2, CallTyped
    <3> QED
      BY <3>1, <3>3
  <2>5. \A o \in todo : val(o) = Right(Key(o, mem[o].row), v)
    BY <1>1, BatchIsRight
  <2> HIDE DEF todo, val
  <2>6. \A o \in todo : /\ Faithful(Fill(o, val(o), v, FALSE), o)
                        /\ Fill(o, val(o), v, FALSE).row = mem[o].row
                        /\ Fill(o, val(o), v, FALSE).cache # {}
    BY <2>5, FillFaithful, OpenIsLoaded DEF todo
  <2>7. mem' = [o \in Owner |-> mem'[o]]
    BY <2>2
  <2>8. \A o \in Owner : mem'[o] = mem[o] \/ Faithful(mem'[o], o)
    BY <2>2, <2>6
  <2>9. ASSUME NEW o \in Loaded
        PROVE  LET key == Key(o, mem[o].row) IN
                 /\ mem'[o].row = mem[o].row
                 /\ \/ mem'[o].cache # {} \/ NilKey(key) \/ ZeroKey(key)
                    \/ Association(log[v], key) = {}
    <3>1. CASE o \in todo /\ val(o) # {}
      BY <2>2, <2>6, <3>1, OpenIsLoaded
    <3>2. CASE o \in todo /\ val(o) = {}
      BY <2>2, <2>5, <3>2, OpenIsLoaded DEF Right
    <3>3. CASE o \notin todo
      BY <2>2, <3>3, OpenIsLoaded DEF Open, todo
    <3> QED
      BY <3>1, <3>2, <3>3
  <2>10. EagerCovers'
    <3> SUFFICES ASSUME NEW o \in Loaded
                 PROVE  LET key == Key(o, mem[o].row) IN
                          (\/ mem[o].cache # {}
                           \/ NilKey(key) \/ ZeroKey(key)
                           \/ (setup.kind = "belongs" /\ \E w \in DOMAIN log : Association(log[w], key) = {}))'
      BY <2>3 DEF Said, EagerCovers
    <3>1. PICK key : key = Key(o, mem[o].row)
      OBVIOUS
    <3>2. Key(o, mem[o].row)' = key
      <4>1. PICK row : row = mem[o].row
        OBVIOUS
      <4>2. Key(o, row)' = Key(o, row)
        BY SetupStays
      <4> QED
        BY <2>9, <3>1, <4>1, <4>2
    <3>3. Association(log[v], key)' = Association(log[v], key)
      <4>1. PICK db : db = log[v]
        OBVIOUS
      <4>2. Association(db, key)' = Association(db, key)
        BY SetupStays
      <4> QED
        BY <4>1, <4>2
    <3>4. NilKey(key)' = NilKey(key) /\ ZeroKey(key)' = ZeroKey(key)
      BY DEF NilKey, ZeroKey
    <3> QED
      BY <2>9, <3>1, <3>2, <3>3, <3>4
  <2> QED
    BY <2>4, <2>7, <2>8, <2>10, ModelsOnly
<1> QED
  BY <1>2, <1>3

LEMMA EagerHasManyInv ==
    ASSUME IndInv, UNCHANGED <<setup, log>>, setup.kind # "one",
           EagerHasMany(Loaded, Open(Loaded))
    PROVE  IndInv'
<1> DEFINE todo == Open(Loaded)
<1>1. setup \in Setups /\ Len(log) \in DOMAIN log
  BY LastLog DEF IndInv, Typed
<1>2. CASE Said("eager", {}, FALSE, <<>>)
  <2>1. mem' = [o \in Owner |-> IF o \in todo THEN Fill(o, {}, Len(log), TRUE) ELSE mem[o]] /\ Fails
    BY <1>2 DEF EagerHasMany, Said
  <2>2. Typed' /\ Reloaded' /\ EagerCovers'
    BY <1>2, <2>1, CallTyped, OtherCall
  <2>3. \A o \in todo : Faithful(Fill(o, {}, Len(log), TRUE), o)
    BY <1>1, FillFaithful, OpenIsLoaded
  <2> HIDE DEF todo
  <2>4. mem' = [o \in Owner |-> mem'[o]]
    BY <2>1
  <2>5. \A o \in Owner : mem'[o] = mem[o] \/ Faithful(mem'[o], o)
    BY <2>1, <2>3
  <2> QED
    BY <2>2, <2>4, <2>5, ModelsOnly
<1>3. CASE ~Said("eager", {}, FALSE, <<>>)
  <2>1. PICK v \in DOMAIN log :
          LET rows == Select(log[v], {Key(o, mem[o].row) : o \in todo}) IN
          mem' = [o \in Owner |-> IF o \in todo
              THEN Fill(o, Group(rows, log[v], Key(o, mem[o].row)), v, FALSE) ELSE mem[o]]
    BY <1>3 DEF EagerHasMany
  <2> DEFINE rows == Select(log[v], {Key(o, mem[o].row) : o \in todo})
             val(o) == Group(rows, log[v], Key(o, mem[o].row))
  <2>2. mem' = [o \in Owner |-> IF o \in todo THEN Fill(o, val(o), v, FALSE) ELSE mem[o]]
    BY <2>1
  <2>3. Said("eager", Loaded, TRUE, <<>>) /\ Works
    BY <1>3 DEF EagerHasMany
  <2>4. Typed' /\ Reloaded'
    <3>1. Reloaded'
      BY <2>3 DEF Said, Reloaded
    <3>2. Loaded \in SUBSET Owner /\ TRUE \in BOOLEAN
      BY OpenIsLoaded
    <3>3. Typed'
      BY <2>3, <3>2, CallTyped
    <3> QED
      BY <3>1, <3>3
  <2>5. \A o \in todo : val(o) = Right(Key(o, mem[o].row), v)
    BY <1>1, BatchIsRight
  <2> HIDE DEF todo, val
  <2>6. \A o \in todo : /\ Faithful(Fill(o, val(o), v, FALSE), o)
                        /\ Fill(o, val(o), v, FALSE).row = mem[o].row
                        /\ Fill(o, val(o), v, FALSE).cache # {}
    BY <2>5, FillFaithful, OpenIsLoaded DEF todo
  <2>7. mem' = [o \in Owner |-> mem'[o]]
    BY <2>2
  <2>8. \A o \in Owner : mem'[o] = mem[o] \/ Faithful(mem'[o], o)
    BY <2>2, <2>6
  <2>9. ASSUME NEW o \in Loaded
        PROVE  LET key == Key(o, mem[o].row) IN
                 mem'[o].row = mem[o].row /\ (mem'[o].cache # {} \/ NilKey(key) \/ ZeroKey(key))
    <3>1. CASE o \in todo
      BY <2>2, <2>6, <3>1, OpenIsLoaded
    <3>2. CASE o \notin todo
      BY <2>2, <3>2, OpenIsLoaded DEF Open, todo
    <3> QED
      BY <3>1, <3>2
  <2>10. EagerCovers'
    <3> SUFFICES ASSUME NEW o \in Loaded
                 PROVE  LET key == Key(o, mem[o].row) IN
                          (mem[o].cache # {} \/ NilKey(key) \/ ZeroKey(key))'
      BY <2>3 DEF Said, EagerCovers
    <3>1. PICK row : row = mem[o].row
      OBVIOUS
    <3>2. Key(o, row)' = Key(o, row)
      BY SetupStays
    <3>3. Key(o, mem[o].row)' = Key(o, mem[o].row)
      BY <2>9, <3>1, <3>2
    <3> QED
      BY <2>9, <3>3 DEF NilKey, ZeroKey
  <2> QED
    BY <2>4, <2>7, <2>8, <2>10, ModelsOnly
<1> QED
  BY <1>2, <1>3

LEMMA EagerInv ==
    ASSUME IndInv, Eager(Loaded)
    PROVE  IndInv'
<1>1. UNCHANGED <<setup, log>> /\ setup.kind # "one"
  BY DEF Eager
<1>2. ASSUME Said("eager", {}, TRUE, <<>>), Works, UNCHANGED mem PROVE IndInv'
  <2>1. Reloaded' /\ EagerCovers'
    BY <1>2 DEF Said, Reloaded, EagerCovers
  <2>2. {} \in SUBSET Owner /\ TRUE \in BOOLEAN
    OBVIOUS
  <2>3. Typed'
    BY <1>1, <1>2, <2>2, CallTyped
  <2> QED
    BY <1>1, <1>2, <2>1, <2>3, ModelsOnly DEF IndInv
<1> QED
  BY <1>1, <1>2, EagerBelongsToInv, EagerHasManyInv DEF Eager

LEMMA FindInv ==
    ASSUME IndInv, NEW items \in SUBSET Owner, Find(items)
    PROVE  IndInv'
<1>1. UNCHANGED <<setup, log, faults>>
  BY DEF Find
<1>2. Said("find", items, TRUE, <<>>)
  BY DEF Find
<1>3. Typed' /\ Reloaded' /\ EagerCovers'
  <2>1. Reloaded' /\ EagerCovers'
    BY <1>2 DEF Said, Reloaded, EagerCovers
  <2>2. TRUE \in BOOLEAN
    OBVIOUS
  <2>3. Typed'
    BY <1>1, <1>2, <2>2, CallTyped DEF Works
  <2> QED
    BY <2>1, <2>3
<1>4. PICK v \in DOMAIN log :
        /\ items \subseteq {o \in Owner : log[v][o] # Gone}
        /\ mem' = [o \in Owner |->
            IF o \in items THEN [row |-> log[v][o], at |-> v, cache |-> {}] ELSE None]
  BY DEF Find
<1>5. mem' = [o \in Owner |-> mem'[o]]
  BY <1>4
<1>6. \A o \in Owner : Faithful(mem'[o], o)
  BY <1>4 DEF Faithful
<1> QED
  BY <1>1, <1>3, <1>5, <1>6, ModelsOnly

\* What a reload says of itself.
LEMMA ReloadSaid ==
    ASSUME IndInv, UNCHANGED <<setup, log>>, Fails \/ Works,
           NEW items \in SUBSET Owner, NEW ok \in BOOLEAN, NEW read, Said("reload", items, ok, read),
           ok => \A o \in items : read[o] \in DOMAIN log /\ (log[read[o]][o] # Gone => mem'[o].at = read[o])
    PROVE  Typed' /\ Reloaded' /\ EagerCovers'
<1>1. Typed'
  BY CallTyped
<1>2. EagerCovers'
  BY DEF Said, EagerCovers
<1>3. Reloaded'
  BY DEF Said, Reloaded
<1> QED
  BY <1>1, <1>2, <1>3

LEMMA ReloadInv ==
    ASSUME IndInv, NEW o \in Owner, Reload(o)
    PROVE  IndInv'
<1>1. UNCHANGED <<setup, log>> /\ mem[o] # None /\ {o} \in SUBSET Owner /\ (Fails \/ Works)
  BY DEF Reload
<1>2. CASE mem' = mem /\ Said("reload", {o}, FALSE, <<>>)
  <2>1. Typed' /\ Reloaded' /\ EagerCovers'
    BY <1>1, <1>2, CallTyped, OtherCall
  <2> QED
    BY <1>1, <1>2, <2>1, ModelsOnly DEF IndInv
<1>3. ASSUME NEW v \in DOMAIN log, log[v][o] # Gone, mem' = [mem EXCEPT ![o] = InPlace(o, v)],
             Said("reload", {o}, TRUE, [p \in {o} |-> v])
      PROVE  IndInv'
  <2>1. mem' = [p \in Owner |-> IF p = o THEN InPlace(o, v) ELSE mem[p]]
    BY <1>3 DEF IndInv
  <2>2. mem' = [p \in Owner |-> mem'[p]]
    BY <2>1
  <2>3. Faithful(InPlace(o, v), o) /\ InPlace(o, v).at = v
    BY <1>1, <1>3, InPlaceFaithful
  <2>4. \A p \in Owner : mem'[p] = mem[p] \/ Faithful(mem'[p], p)
    BY <2>1, <2>3
  <2> DEFINE read == [p \in {o} |-> v]
  <2>5. \A p \in {o} : read[p] \in DOMAIN log /\ mem'[p].at = read[p]
    BY <2>1, <2>3
  <2>6. Said("reload", {o}, TRUE, read) /\ TRUE \in BOOLEAN
    BY <1>3
  <2> HIDE DEF read
  <2>7. Typed' /\ Reloaded' /\ EagerCovers'
    BY <1>1, <2>5, <2>6, ReloadSaid
  <2> QED
    BY <1>1, <2>2, <2>4, <2>7, ModelsOnly
<1> QED
  BY <1>2, <1>3 DEF Reload

LEMMA ReloadBatchInv ==
    ASSUME IndInv, NEW items \in SUBSET Owner, UNCHANGED <<setup, log>>, ReloadBatch(items)
    PROVE  IndInv'
<1>1. Fails \/ Works
  BY DEF ReloadBatch
<1>2. CASE mem' = mem /\ Said("reload", items, FALSE, <<>>)
  <2>1. Typed' /\ Reloaded' /\ EagerCovers'
    BY <1>1, <1>2, CallTyped, OtherCall
  <2> QED
    BY <1>2, <2>1, ModelsOnly DEF IndInv
<1>3. ASSUME NEW v \in DOMAIN log,
             mem' = [o \in Owner |-> IF o \in items THEN Merge(o, v) ELSE mem[o]],
             Said("reload", items, TRUE, [o \in items |-> v])
      PROVE  IndInv'
  <2>1. mem' = [o \in Owner |-> mem'[o]]
    BY <1>3
  <2>2. \A o \in Owner : mem'[o] = mem[o] \/ Faithful(mem'[o], o)
    BY <1>3, MergeFaithful
  <2> DEFINE read == [o \in items |-> v]
  <2>3. \A o \in items : read[o] \in DOMAIN log /\ (log[read[o]][o] # Gone => mem'[o].at = read[o])
    BY <1>3, MergeFaithful
  <2>4. Said("reload", items, TRUE, read) /\ TRUE \in BOOLEAN
    BY <1>3
  <2> HIDE DEF read
  <2>5. Typed' /\ Reloaded' /\ EagerCovers'
    BY <1>1, <2>3, <2>4, ReloadSaid
  <2> QED
    BY <2>1, <2>2, <2>5, ModelsOnly
<1> QED
  BY <1>2, <1>3 DEF ReloadBatch

\* Who is not among the bad ones, and before them, is reloaded.
LEMMA DoneFacts ==
    ASSUME NEW items \in SUBSET Owner, NEW bad
    PROVE  /\ Done(items, bad).reloaded \subseteq items \ bad
           /\ Done(items, bad).ok \in BOOLEAN
           /\ Done(items, bad).ok => Done(items, bad).reloaded = items
<1>1. \A o \in Owner : ~(o < o)
  BY ModelAssumption
<1> QED
  BY <1>1 DEF Done

LEMMA ReloadEachInv ==
    ASSUME IndInv, NEW items \in SUBSET Loaded, UNCHANGED <<setup, log>>, ReloadEach(items)
    PROVE  IndInv'
<1>1. PICK read \in [items -> DOMAIN log], failed \in {{}} \cup {{o} : o \in items} :
        LET gone == {o \in items : log[read[o]][o] = Gone}
            done == Done(items, IF Can("owner", "lazy") THEN gone \cup failed ELSE items)
        IN  /\ mem' = [o \in Owner |-> IF o \in done.reloaded THEN InPlace(o, read[o]) ELSE mem[o]]
            /\ Said("reload", items, done.ok, read)
            /\ IF failed = {} THEN Works ELSE Fails
  BY DEF ReloadEach
<1> DEFINE gone == {o \in items : log[read[o]][o] = Gone}
           bad == IF Can("owner", "lazy") THEN gone \cup failed ELSE items
           done == Done(items, bad)
<1>2. /\ mem' = [o \in Owner |-> IF o \in done.reloaded THEN InPlace(o, read[o]) ELSE mem[o]]
      /\ Said("reload", items, done.ok, read)
      /\ Fails \/ Works
  BY <1>1
<1>3. items \in SUBSET Owner
  BY DEF Loaded
<1>4. gone \subseteq bad
  OBVIOUS
<1> HIDE DEF bad
<1>5. done.reloaded \subseteq items \ bad /\ done.ok \in BOOLEAN /\ (done.ok => done.reloaded = items)
  BY <1>3, DoneFacts
<1>6. \A o \in done.reloaded : o \in items /\ log[read[o]][o] # Gone
  BY <1>4, <1>5
<1> HIDE DEF done
<1>7. \A o \in done.reloaded : Faithful(InPlace(o, read[o]), o) /\ InPlace(o, read[o]).at = read[o]
  BY <1>3, <1>6, InPlaceFaithful DEF Loaded
<1>8. mem' = [o \in Owner |-> mem'[o]]
  BY <1>2
<1>9. \A o \in Owner : mem'[o] = mem[o] \/ Faithful(mem'[o], o)
  BY <1>2, <1>7
<1>10. done.ok => \A o \in items : read[o] \in DOMAIN log /\ mem'[o].at = read[o]
  BY <1>2, <1>3, <1>5, <1>7
<1>11. Typed' /\ Reloaded' /\ EagerCovers'
  <2>1. PICK ok \in BOOLEAN : ok = done.ok
    BY <1>5
  <2> QED
    BY <1>2, <1>3, <1>10, <2>1, ReloadSaid
<1> QED
  BY <1>8, <1>9, <1>11, ModelsOnly

\* What a page was told about its fields stays so while no call is made.
LEMMA CoversStay ==
    ASSUME UNCHANGED <<setup, mem, call>>, EagerCovers,
           DOMAIN log \subseteq DOMAIN log', \A v \in DOMAIN log : log'[v] = log[v]
    PROVE  EagerCovers'
<1> SUFFICES ASSUME call.op = "eager", call.ok, NEW o \in call.items
             PROVE  LET key == Key(o, mem[o].row) IN
                      (\/ mem[o].cache # {}
                       \/ NilKey(key) \/ ZeroKey(key)
                       \/ (setup.kind = "belongs" /\ \E w \in DOMAIN log : Association(log[w], key) = {}))'
  BY DEF EagerCovers
<1>1. PICK r, key : r = mem[o].row /\ key = Key(o, r)
  OBVIOUS
<1>2. \/ mem[o].cache # {}
      \/ NilKey(key) \/ ZeroKey(key)
      \/ (setup.kind = "belongs" /\ \E w \in DOMAIN log : Association(log[w], key) = {})
  BY <1>1 DEF EagerCovers
<1>3. Key(o, r)' = key
  BY <1>1, SetupStays
<1>4. Key(o, mem[o].row)' = key
  BY <1>1, <1>3
<1>5. \A d : Association(d, key)' = Association(d, key)
  BY SetupStays
<1>6. ASSUME NEW w \in DOMAIN log, Association(log[w], key) = {}
      PROVE  w \in DOMAIN log' /\ Association(log[w], key)' = {}
  <2>1. PICK d : d = log[w]
    OBVIOUS
  <2>2. Association(d, key)' = {}
    BY <1>5, <1>6, <2>1
  <2> QED
    BY <2>1, <2>2
<1>7. NilKey(key)' = NilKey(key) /\ ZeroKey(key)' = ZeroKey(key)
  BY DEF NilKey, ZeroKey
<1> QED
  BY <1>2, <1>4, <1>6, <1>7

\* A change of the database adds a state and keeps the older ones.
LEMMA WriteInv ==
    ASSUME IndInv, NEW id \in Owner \cup Child, Write(id)
    PROVE  IndInv'
<1>1. PICK S : log \in Seq(S)
  BY DEF IndInv, Logged
<1>2. PICK row : log' = Append(log, [log[Len(log)] EXCEPT ![id] = row])
  BY DEF Write
<1> DEFINE db == [log[Len(log)] EXCEPT ![id] = row]
<1>3. UNCHANGED <<setup, mem, call, faults>> /\ Len(log) <= MaxWrites
  BY DEF Write
<1>4. DOMAIN db = Owner \cup Child
  BY LastLog DEF IndInv, Logged
<1> HIDE DEF db
<1>5. log' = Append(log, db)
  BY <1>2 DEF db
<1>6. log \in Seq(S \cup {db})
  BY <1>1
<1>7. /\ log' \in Seq(S \cup {db})
      /\ Len(log') = Len(log) + 1
      /\ DOMAIN log' = DOMAIN log \cup {Len(log) + 1}
      /\ \A v \in DOMAIN log : log'[v] = log[v]
      /\ log'[Len(log) + 1] = db
  BY <1>5, <1>6
<1>8. Len(log) \in 1 .. MaxWrites + 1
  BY DEF IndInv, Logged
<1>9. Logged'
  <2>1. Len(log') \in 1 .. MaxWrites + 1
    BY <1>3, <1>7, <1>8, ModelAssumption
  <2>2. \A v \in DOMAIN log' : DOMAIN log'[v] = Owner \cup Child
    BY <1>4, <1>7 DEF IndInv, Logged
  <2> QED
    BY <1>7, <2>1, <2>2 DEF Logged
<1>10. ASSUME NEW o \in Owner PROVE Faithful(mem[o], o)'
  <2>1. PICK m : m = mem[o]
    OBVIOUS
  <2>2. Faithful(m, o)
    BY <2>1 DEF IndInv
  <2>3. Faithful(m, o)'
    BY <1>3, <1>7, <2>2, FaithfulStays
  <2> QED
    BY <1>3, <2>1, <2>3
<1>11. Reloaded'
  BY <1>3, <1>7 DEF IndInv, Reloaded
<1>12. EagerCovers'
  BY <1>3, <1>7, CoversStay DEF IndInv
<1> QED
  BY <1>3, <1>9, <1>10, <1>11, <1>12 DEF IndInv, Typed

LEMMA StutterInv ==
    ASSUME IndInv, UNCHANGED vars
    PROVE  IndInv'
<1>1. UNCHANGED <<setup, log, mem, call, faults>>
  BY DEF vars
<1>2. mem' = [o \in Owner |-> mem'[o]] /\ \A o \in Owner : mem'[o] = mem[o]
  BY <1>1 DEF IndInv
<1>3. Typed' /\ Reloaded'
  BY <1>1 DEF IndInv, Typed, Reloaded
<1>4. EagerCovers'
  BY <1>1, CoversStay DEF IndInv
<1> QED
  BY <1>1, <1>2, <1>3, <1>4, ModelsOnly

LEMMA NextInv == IndInv /\ [Next]_vars => IndInv'
<1> SUFFICES ASSUME IndInv, [Next]_vars PROVE IndInv'
  OBVIOUS
<1>1. ASSUME NEW o \in Owner, Lazy(o) PROVE IndInv'
  BY <1>1, LazyInv
<1>2. ASSUME NEW o \in Owner, Reload(o) PROVE IndInv'
  BY <1>2, ReloadInv
<1>3. ASSUME NEW items \in SUBSET Owner, Find(items) PROVE IndInv'
  BY <1>3, FindInv
<1>4. ASSUME NEW items \in SUBSET Owner, ReloadAll(items) PROVE IndInv'
  BY <1>4, ReloadBatchInv, ReloadEachInv DEF ReloadAll
<1>5. CASE Eager(Loaded)
  BY <1>5, EagerInv
<1>6. ASSUME NEW id \in Owner \cup Child, Write(id) PROVE IndInv'
  BY <1>6, WriteInv
<1>7. CASE UNCHANGED vars
  BY <1>7, StutterInv
<1> QED
  BY <1>1, <1>2, <1>3, <1>4, <1>5, <1>6, <1>7 DEF Next

\* The invariant of every use of the models.
THEOREM Inductive == Spec => []IndInv
BY InitInv, NextInv, PTL DEF Spec

-----------------------------------------------------------------------------
(* What the handlers may rely on                                           *)

\* Every variable keeps its type; a model in memory is one of a row.
THEOREM TypeCorrect == Spec => []TypeOK
<1>1. ASSUME IndInv PROVE TypeOK
  <2>1. ASSUME NEW o \in Loaded, NEW c \in mem[o].cache
        PROVE  c.val \subseteq Child /\ c.at \in DOMAIN log
    <3>1. Answered(c)
      BY <1>1 DEF IndInv, Faithful, Loaded
    <3>2. \A key, v : Right(key, v) \subseteq Child
      BY DEF Right, Lowest, Association
    <3> QED
      BY <3>1, <3>2 DEF Answered
  <2>2. \A o \in Loaded : mem[o].row # Gone /\ mem[o].at \in DOMAIN log
    BY <1>1 DEF IndInv, Faithful, Loaded
  <2> QED
    BY <1>1, <2>1, <2>2 DEF IndInv, Typed, Logged, TypeOK
<1> QED
  BY <1>1, Inductive, PTL

\* Find, Reload and ReloadAll (helper_lazy.go:961-1080) never give a model the
\* columns of another row.
THEOREM RowsStayApart == Spec => []ItsOwnRow
<1>1. IndInv => ItsOwnRow
  BY DEF IndInv, ItsOwnRow, Faithful, Loaded
<1> QED
  BY <1>1, Inductive, PTL

\* What an accessor or a batch (helper_lazy.go:221-903) leaves in a field is what
\* some state of the database held for this model's own key.
THEOREM CachesAreQueries == Spec => []CacheIsAQuery
<1>1. ASSUME IndInv PROVE CacheIsAQuery
  <2> SUFFICES ASSUME NEW o \in Loaded, NEW c \in mem[o].cache
               PROVE  /\ IF c.failed THEN c.val = {} ELSE c.val = Right(c.key, c.at)
                      /\ c.key = Key(o, mem[o].row) \/ c.over
    BY DEF CacheIsAQuery, Right
  <2>1. Faithful(mem[o], o) /\ mem[o] # None
    BY <1>1 DEF IndInv, Loaded
  <2> QED
    BY <2>1 DEF Faithful, Answered
<1> QED
  BY <1>1, Inductive, PTL

\* After an Eager option that could query, only nil and zero keys and records that
\* were not there are left to the accessors.
THEOREM EagerIsEnough == Spec => []EagerCovers
<1>1. IndInv => EagerCovers
  BY DEF IndInv
<1> QED
  BY <1>1, Inductive, PTL

\* A Reload or ReloadAll that returns no error has brought every model it was
\* given what it read (helper_lazy.go:981-1007).
THEOREM ReloadIsHonest == Spec => []ReloadTold
<1>1. IndInv => ReloadTold
  BY DEF IndInv, ReloadTold, Reloaded
<1> QED
  BY <1>1, Inductive, PTL

=============================================================================
