---------------------------- MODULE QueryRequest ----------------------------
(***************************************************************************)
(* A request with a filter (q=) and a sort (s=): FromRequest, ToOption and *)
(* the repositories' Find and First (database_repository.go), Find page by *)
(* page (PaginationOpt, LimitOpt).                                         *)
(*                                                                         *)
(* The database selects, sorts and cuts; the predicate of the filter and a *)
(* sort in memory come after the cut and see one page only.                *)
(***************************************************************************)
EXTENDS QueryFilter, QuerySort

CONSTANT Calls      \* q: a filter, s: the parts of a sort, rows: the table,
                    \* op: "find" with a limit, 0 for none, or "first"

\* A row: 0 or 1 in each field that sorts, an id, and what filters see of it.
ASSUME CallAssumption ==
    /\ \A f \in DOMAIN Sortable : Sortable[f] \subseteq {"column", "fn"}
    /\ \A c \in Calls :
        /\ c.q \in Seq(Token) /\ c.s \in Seq([sign : {"", "+", "-"}, name : STRING])
        /\ c.op \in {"find", "first"} /\ c.limit \in Nat
        /\ IsFiniteSet(c.rows)
        /\ \A row \in c.rows :
            row.id \in Nat /\ row.is \in Row /\ \A f \in DOMAIN Sortable : row[f] \in 0 .. 1

VARIABLES
    call,
    node,       \* the root of the filter's tree
    tree,
    sorts,      \* the directives
    items,      \* the rows of the call
    read,       \* the rows of the pages before
    offset,     \* where the page begins
    pc

vars == <<call, node, tree, sorts, items, read, offset, pc>>

Init ==
    /\ call \in Calls
    /\ node = Nil /\ tree = <<>> /\ sorts = <<>>
    /\ items = <<>> /\ read = <<>> /\ offset = 0 /\ pc = "parse"

FromRequest ==
    /\ pc = "parse"
    /\ LET r == ParseFilter(call.q) IN
        IF r.ok THEN node' = r.node /\ tree' = r.tree /\ sorts' = ParseSort(call.s) /\ pc' = "validate"
        ELSE pc' = "rejected" /\ UNCHANGED <<node, tree, sorts>>
    /\ UNCHANGED <<call, items, read, offset>>

ToOption ==
    /\ pc = "validate"
    /\ pc' = IF ValidateNode(tree, node) /\ ValidateSorts(sorts) THEN "query" ELSE "rejected"
    /\ UNCHANGED <<call, node, tree, sorts, items, read, offset>>

\* The rows of the WHERE clause.
Selected == {row \in call.rows : Where(tree, node, row.is)}

Find ==
    /\ pc = "query" /\ call.op = "find"
    /\ \E p \in Answers(Selected, collectDBSorts(sorts)) : items' = Paginate(p, offset, call.limit)
    /\ pc' = "apply"
    /\ UNCHANGED <<call, node, tree, sorts, read, offset>>

ById == [field |-> "id", desc |-> FALSE]

\* First: one row; gorm orders by the primary key last.
First ==
    /\ pc = "query" /\ call.op = "first"
    /\ \E p \in Answers(Selected, Append(collectDBSorts(sorts), ById)) : items' = Paginate(p, 0, 1)
    /\ pc' = "apply"
    /\ UNCHANGED <<call, node, tree, sorts, read, offset>>

Keeps(row) == Passes(tree, node, row.is)

\* The rows that the predicate keeps, in order.
Kept(s) ==
    LET kept[n \in 0 .. Len(s)] ==
            IF n = 0 THEN <<>>
            ELSE IF Keeps(s[n]) THEN Append(kept[n - 1], s[n]) ELSE kept[n - 1]
    IN  kept[Len(s)]

ApplyFilter ==
    /\ pc = "apply"
    /\ IF hasMemSort(sorts) THEN items' \in SliceStable(Kept(items), sorts) ELSE items' = Kept(items)
    /\ pc' = "found"
    /\ UNCHANGED <<call, node, tree, sorts, read, offset>>

\* The client asks for the next page.  Bound: the last one begins where the
\* rows that are selected end.
NextPage ==
    /\ pc = "found" /\ call.op = "find" /\ call.limit > 0
    /\ offset + call.limit <= Cardinality(Selected)
    /\ read' = read \o items /\ items' = <<>> /\ offset' = offset + call.limit /\ pc' = "query"
    /\ UNCHANGED <<call, node, tree, sorts>>

Next == FromRequest \/ ToOption \/ Find \/ First \/ ApplyFilter \/ NextPage

Spec == Init /\ [][Next]_vars

(***************************************************************************)
(* Correctness                                                             *)
(***************************************************************************)

\* ParseFilter accepts the filters of the grammar and no other, and its tree
\* means what the filter means: a comma binds weaker than a semicolon, both to the left,
\* parentheses group (parseOr, parseAnd, parsePrimary).  A request that is refused
\* is no filter, or names a field that the schema does not filter or sort by.
TreeMeans ==
    /\ pc = "validate" => call.q = <<>> \/ Derives(call.q)[Whole(call.q)]
    /\ pc = "rejected" =>
        \/ call.q # <<>> /\ ~Derives(call.q)[Whole(call.q)]
        \/ \E i \in DOMAIN call.q : call.q[i] \in Field /\ Level[call.q[i]] = "unknown"
        \/ \E i \in DOMAIN call.s : call.s[i].name # "" /\ ~CanSort(call.s[i].name)
    /\ pc = "query" /\ call.q # <<>> =>
        \A is \in Row : (Holds(tree, is)[node] <=> Matches(call.q, is))

Hits == {row \in call.rows : Matches(call.q, row.is)}

\* No row that matches is lost between the WHERE clause and the predicate of
\* Find.  First comes back empty-handed only if nothing matches, or because the
\* FilterFn it asks about a single row refuses it (database_repository.go:126).
NothingLost ==
    /\ pc = "found" /\ call.op = "find" /\ call.limit = 0 => Hits \subseteq Range(items)
    /\ pc = "found" /\ call.op = "first" /\ items = <<>> => hasMemFilter(tree, node) \/ Hits = {}

\* What Find and First return matches, unless an OR mixes the levels.
NothingExtra ==
    pc = "found" /\ (node # Nil => Separable(tree)[node]) => Range(items) \subseteq Hits

\* "DB-level leaves return true (already filtered by the DB query)"
\* (components/queryfilter/option.go:374): what Find returns matches, whenever
\* the SQL conditions can be built.  An OR of SQL and FilterFn breaks it.
FindMatches ==
    pc = "found" /\ call.op = "find" /\ (node # Nil => \A f \in Leaves(tree)[node] : Level[f] # "bad") =>
        Range(items) \subseteq Hits

\* The database does the sorting.
ByColumn == ~(\E s \in Range(sorts) : HasFn(s))

\* The directives that order a result: all of them, or in a mixed sort those
\* with a SortFn (components/queryfilter/schema.go:25).
InForce(s) == ByColumn \/ HasFn(s)

\* The place of a row among all: the first directive is the leading digit.
Place(row) ==
    LET place[n \in 0 .. Len(sorts)] ==
            IF n = 0 THEN 0
            ELSE LET s == sorts[n] IN
                 IF ~InForce(s) THEN place[n - 1]
                 ELSE 2 * place[n - 1] + IF s.desc THEN 1 - row[s.field] ELSE row[s.field]
    IN  place[Len(sorts)]

\* Wherever the sorting takes place, a page is in the order of the directives.
Ordered ==
    pc = "found" =>
        \A i, j \in DOMAIN items : i < j => Place(items[i]) <= Place(items[j])

\* The directives tell the rows of the WHERE clause from each other.
Separates == \A a, b \in Selected : Place(a) = Place(b) => a = b

Seen == Range(read \o items)

\* No row that matches and has not been seen comes before one that has, whatever
\* the FilterFn has taken from the pages; from the second page on only if the
\* directives separate the rows.  A sort in memory comes after the cut and sorts
\* whatever rows that has left.
PageIsFront ==
    pc = "found" /\ ByColumn /\ (offset = 0 \/ Separates) =>
        \A row \in Hits \ Seen, other \in Seen : Place(other) <= Place(row)

\* The last page, as a client can tell it: it is short.  Behind a FilterFn any
\* page may be short, or empty, and only one that reaches the end is the last.
LastPage ==
    \/ call.limit = 0 \/ offset + call.limit >= Cardinality(Selected)
    \/ Len(items) < call.limit /\ ~hasMemFilter(tree, node)

\* When the directives separate the rows, the pages together have every row that
\* matches, and none twice.
PagesComplete ==
    pc = "found" /\ call.op = "find" /\ ByColumn /\ Separates =>
        IsInjective(read \o items) /\ (LastPage => Hits \subseteq Seen)

\* Pages are in order and, if the database sorts them, the front of the rows
\* that match and together all of these, also when a FilterFn thins every page after
\* LIMIT and OFFSET have cut it (option.go:316, database_repository.go:138,
\* helper_repository.go:168).
SortedPages == Ordered /\ PageIsFront /\ PagesComplete

=============================================================================
