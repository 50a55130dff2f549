----------------------------- MODULE QuerySort -----------------------------
(***************************************************************************)
(* components/queryfilter: the sort directives of a request, and how the   *)
(* database or, if one of their fields has a SortFn, sort.SliceStable      *)
(* orders rows by them.  QueryRequest.tla calls it.                        *)
(*                                                                         *)
(* A SortFn and a column order the rows by the same value.                 *)
(***************************************************************************)
EXTENDS Integers, Sequences, FiniteSets, Functions

CONSTANT Sortable   \* the fields: which of "column" (SortColumn) and "fn" (SortFn) they have

HasFn(s) == "fn" \in Sortable[s.field]

\* ParseSort: parts are a sign and a name; those without a name are skipped.
ParseSort(parts) ==
    LET result[n \in 0 .. Len(parts)] ==
            IF n = 0 THEN <<>>
            ELSE IF parts[n].name = "" THEN result[n - 1]
            ELSE Append(result[n - 1], [field |-> parts[n].name, desc |-> parts[n].sign = "-"])
    IN  result[Len(parts)]

CanSort(field) == field \in DOMAIN Sortable /\ Sortable[field] # {}

ValidateSorts(ss) == \A s \in Range(ss) : CanSort(s.field)

hasMemSort(ss) == \E s \in Range(ss) : HasFn(s)

\* Faulty variant: gorm's Order of the last directive only.
collectDBSortsLast(ss) == IF hasMemSort(ss) \/ ss = <<>> THEN <<>> ELSE <<ss[Len(ss)]>>

\* The ORDER BY: nothing as soon as one field needs its SortFn.
collectDBSorts(ss) == IF hasMemSort(ss) THEN <<>> ELSE ss

Before(a, b, s) == IF s.desc THEN a[s.field] > b[s.field] ELSE a[s.field] < b[s.field]

\* Of the directives at these places the first that tells a from b decides.
Compare(a, b, ss, places) ==
    \E i \in places :
        /\ Before(a, b, ss[i])
        /\ \A j \in places : j < i => a[ss[j].field] = b[ss[j].field]

\* In memory a directive without a SortFn is passed over.
compareItems(a, b, ss) == Compare(a, b, ss, {i \in DOMAIN ss : HasFn(ss[i])})

\* sort.SliceStable: the rows of s in order, and those that tie as they were.
SliceStable(s, ss) ==
    {[k \in DOMAIN s |-> s[p[k]]] :
        p \in {p \in Bijection(DOMAIN s, DOMAIN s) :
                \A i, j \in DOMAIN s : i < j =>
                    \/ compareItems(s[p[i]], s[p[j]], ss)
                    \/ p[i] < p[j] /\ ~compareItems(s[p[j]], s[p[i]], ss)}}

\* What the database may answer, asked for these rows: ties in any order.
Answers(rows, ss) ==
    {p \in Bijection(1 .. Cardinality(rows), rows) :
        \A i, j \in DOMAIN p : i < j => ~Compare(p[j], p[i], ss, DOMAIN ss)}

\* LIMIT and OFFSET; without a limit, all that is left.
Paginate(p, offset, limit) ==
    LET left == Len(p) - offset
    IN  [k \in 1 .. (IF limit = 0 \/ left < limit THEN left ELSE limit) |-> p[offset + k]]

=============================================================================
