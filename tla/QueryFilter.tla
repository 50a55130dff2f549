---------------------------- MODULE QueryFilter ----------------------------
(***************************************************************************)
(* components/queryfilter: how a filter is parsed, validated against a     *)
(* schema and split in two, a WHERE clause and a predicate for the rows    *)
(* that the database returns.  QueryRequest.tla calls it.                  *)
(*                                                                         *)
(* A comparison is one token, named by its field: operators and values are *)
(* left to the row, which says what it makes of the comparison.  A node of *)
(* a tree is named by the place of its token, the comparison or the        *)
(* connective; a tree is a function from these names to the nodes.         *)
(***************************************************************************)
EXTENDS Naturals, Sequences, FiniteSets

CONSTANTS
    Field,      \* the comparisons a filter may contain
    Level       \* Level[f]: how the schema resolves f, see Levels

\* "db": Column or SQLExpr; "bad": an SQLExpr that refuses the operator or the
\* value; "mem": FilterFn; "unknown": not in the schema.
Levels == {"db", "bad", "mem", "unknown"}

Punctuation == {"LPAREN", "RPAREN", "SEMI", "COMMA"}
Token == Field \cup Punctuation

ASSUME SchemaAssumption ==
    /\ Level \in [Field -> Levels]
    /\ Field \cap (Punctuation \cup {"EOF"}) = {}

\* A row, as far as filters see it: what it makes of each comparison.
Row == [Field -> BOOLEAN]

-----------------------------------------------------------------------------
(* The parser: parseOr, parseAnd, parsePrimary, parseComparison at position *)
(* i return the node, its tree and the position after it.                  *)

Leaf(f) == [op |-> "cmp", field |-> f]
Logical(o, l, r) == [op |-> o, left |-> l, right |-> r]

Peek(w, i) == IF i <= Len(w) THEN w[i] ELSE "EOF"

Parsed(n, i, t) == [ok |-> TRUE, node |-> n, at |-> i, tree |-> t]
Failure == [ok |-> FALSE]

\* The node of the connective at l.at.
Join(o, l, r) ==
    Parsed(l.at, r.at,
           [n \in DOMAIN l.tree \cup DOMAIN r.tree \cup {l.at} |->
                IF n = l.at THEN Logical(o, l.node, r.node)
                ELSE IF n \in DOMAIN l.tree THEN l.tree[n] ELSE r.tree[n]])

ParseComparison(w, i) ==
    IF Peek(w, i) \in Field THEN Parsed(i, i + 1, [n \in {i} |-> Leaf(w[i])]) ELSE Failure

\* What the calls of parseOr and parseAnd at i return, parse being the parser.
ParseOr(w, parse, i) == parse[<<"or", i, Len(w)>>]
ParseAnd(w, parse, i) == parse[<<"and", i, Len(w)>>]

ParsePrimary(w, parse, i) ==
    IF Peek(w, i) # "LPAREN" THEN ParseComparison(w, i)
    ELSE LET r == ParseOr(w, parse, i + 1)
         IN IF r.ok /\ Peek(w, r.at) = "RPAREN" THEN Parsed(r.node, r.at + 1, r.tree) ELSE Failure

\* One round of a loop: the right side of the connective, if it is there.
Round(w, o, l, sep, right) ==
    IF ~l.ok \/ Peek(w, l.at) # sep THEN l
    ELSE IF right.ok THEN Join(o, l, right) ELSE Failure

\* A mutant: the right side of an AND is a whole OR.
AndLoopLoose(w, parse, l) == Round(w, "AND", l, "SEMI", ParseOr(w, parse, l.at + 1))

AndLoop(w, parse, l) == Round(w, "AND", l, "SEMI", ParsePrimary(w, parse, l.at + 1))
OrLoop(w, parse, l) == Round(w, "OR", l, "COMMA", ParseAnd(w, parse, l.at + 1))

\* parseOr and parseAnd at a position, after some rounds of their loop; there
\* are fewer rounds than tokens.
LoopStates(w) == {"or", "and"} \X (1 .. Len(w) + 1) \X (0 .. Len(w))

Parser(w) ==
    LET parse[c \in LoopStates(w)] ==
            LET before == parse[<<c[1], c[2], c[3] - 1>>] IN
            IF c[1] = "or"
            THEN IF c[3] = 0 THEN ParseAnd(w, parse, c[2]) ELSE OrLoop(w, parse, before)
            ELSE IF c[3] = 0 THEN ParsePrimary(w, parse, c[2]) ELSE AndLoop(w, parse, before)
    IN  parse

\* The tree of an empty filter is nil.
Nil == 0

ParseFilter(w) ==
    IF w = <<>> THEN Parsed(Nil, 1, <<>>)
    ELSE LET r == ParseOr(w, Parser(w), 1)
         IN IF r.ok /\ Peek(w, r.at) = "EOF" THEN r ELSE Failure

-----------------------------------------------------------------------------
(* Validation and the two halves of the filter                             *)

\* The fields below each node.
Leaves(t) ==
    LET leaves[n \in DOMAIN t] ==
            IF t[n].op = "cmp" THEN {t[n].field}
            ELSE leaves[t[n].left] \cup leaves[t[n].right]
    IN  leaves

ValidateNode(t, n) == n # Nil => \A f \in Leaves(t)[n] : Level[f] # "unknown"

\* nodeToDBCond: can the subtree become one SQL condition?
Pushable(t, n) == \A f \in Leaves(t)[n] : Level[f] = "db"

\* A mutant: the sides of an OR are collected like those of an AND.
collectDBCondsApart(t) ==
    LET conds[n \in DOMAIN t] ==
            IF t[n].op # "cmp" THEN conds[t[n].left] \cup conds[t[n].right]
            ELSE IF Pushable(t, n) THEN {n} ELSE {}
    IN  conds

\* The subtrees that become conditions of the WHERE clause.
collectDBConds(t) ==
    LET conds[n \in DOMAIN t] ==
            IF t[n].op = "AND" THEN conds[t[n].left] \cup conds[t[n].right]
            ELSE IF Pushable(t, n) THEN {n} ELSE {}
    IN  conds

\* What the database makes of a node.
Holds(t, row) ==
    LET holds[n \in DOMAIN t] ==
            \/ t[n].op = "cmp" /\ row[t[n].field]
            \/ t[n].op = "AND" /\ holds[t[n].left] /\ holds[t[n].right]
            \/ t[n].op = "OR" /\ (holds[t[n].left] \/ holds[t[n].right])
    IN  holds

\* The WHERE clause.
Where(t, n, row) == n # Nil => \A c \in collectDBConds(t)[n] : Holds(t, row)[c]

\* A mutant: only the left side of AND and OR is looked at.
hasMemFilterLeft(t, n) ==
    n # Nil /\ \E f \in Leaves(t)[IF t[n].op = "cmp" THEN n ELSE t[n].left] : Level[f] = "mem"

hasMemFilter(t, n) == n # Nil /\ \E f \in Leaves(t)[n] : Level[f] = "mem"

\* The predicate on rows in memory: whatever is not a FilterFn is TRUE.
evalNode(t, row) ==
    LET eval[n \in DOMAIN t] ==
            \/ t[n].op = "cmp" /\ (Level[t[n].field] = "mem" => row[t[n].field])
            \/ t[n].op = "AND" /\ eval[t[n].left] /\ eval[t[n].right]
            \/ t[n].op = "OR" /\ (eval[t[n].left] \/ eval[t[n].right])
    IN  eval

Passes(t, n, row) == hasMemFilter(t, n) => evalNode(t, row)[n]

(***************************************************************************)
(* The reference: the grammar of filters and their meaning                 *)
(*   E = T | E , T         T = F | T ; F         F = field | ( E )          *)
(* A span <<symbol, i, j>> is the part of a word from i up to before j.    *)
(***************************************************************************)

Spans(w) == {"E", "T", "F"} \X (1 .. Len(w) + 1) \X (1 .. Len(w) + 1)

Derives(w) ==
    LET derives[s \in Spans(w)] ==
            LET i == s[2]  j == s[3]
                Cut(sep, l, r) ==
                    \E k \in i .. j - 1 :
                        w[k] = sep /\ derives[<<l, i, k>>] /\ derives[<<r, k + 1, j>>]
            IN
            \/ s[1] = "E" /\ (derives[<<"T", i, j>>] \/ Cut("COMMA", "E", "T"))
            \/ s[1] = "T" /\ (derives[<<"F", i, j>>] \/ Cut("SEMI", "T", "F"))
            \/ s[1] = "F" /\ j = i + 1 /\ w[i] \in Field
            \/ /\ s[1] = "F" /\ i + 1 < j /\ w[i] = "LPAREN" /\ w[j - 1] = "RPAREN"
               /\ derives[<<"E", i + 1, j - 1>>]
    IN  derives

Means(w, row) ==
    LET means[s \in Spans(w)] ==
            LET i == s[2]  j == s[3]
                Cuts(sep, l, r) ==
                    {k \in i .. j - 1 :
                        w[k] = sep /\ Derives(w)[<<l, i, k>>] /\ Derives(w)[<<r, k + 1, j>>]}
            IN
            \/ s[1] = "E" /\ Derives(w)[<<"T", i, j>>] /\ means[<<"T", i, j>>]
            \/ s[1] = "E" /\ \E k \in Cuts("COMMA", "E", "T") :
                                means[<<"E", i, k>>] \/ means[<<"T", k + 1, j>>]
            \/ s[1] = "T" /\ Derives(w)[<<"F", i, j>>] /\ means[<<"F", i, j>>]
            \/ s[1] = "T" /\ \E k \in Cuts("SEMI", "T", "F") :
                                means[<<"T", i, k>>] /\ means[<<"F", k + 1, j>>]
            \/ s[1] = "F" /\ j = i + 1 /\ w[i] \in Field /\ row[w[i]]
            \/ s[1] = "F" /\ i + 1 < j /\ means[<<"E", i + 1, j - 1>>]
    IN  means

Whole(w) == <<"E", 1, Len(w) + 1>>

Matches(w, row) == w = <<>> \/ Means(w, row)[Whole(w)]

\* No OR has a FilterFn on one side and SQL on the other, and every SQL
\* condition can be built.
Separable(t) ==
    LET separable[n \in DOMAIN t] ==
            \/ t[n].op = "OR" /\ (Pushable(t, n) \/ \A f \in Leaves(t)[n] : Level[f] = "mem")
            \/ t[n].op = "AND" /\ separable[t[n].left] /\ separable[t[n].right]
            \/ t[n].op = "cmp" /\ Level[t[n].field] # "bad"
    IN  separable

=============================================================================
