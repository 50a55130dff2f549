--------------------------- MODULE MCQueryRequest --------------------------
(* Instances of QueryRequest for TLC. *)
EXTENDS QueryRequest, TLC

Kinds == {"db", "bad", "mem", "unknown"}
Schema == [f \in Kinds |-> f]

WordsOver(fields, n) == UNION {[1 .. k -> fields \cup Punctuation] : k \in 0 .. n}

\* Two connectives and a pair of parentheses.
Mixed == {"db", "mem"}
Either == {"SEMI", "COMMA"}
Groups == UNION {{<<a, s, "LPAREN", b, t, c, "RPAREN">>, <<"LPAREN", a, s, b, "RPAREN", t, c>>} :
                    a \in Mixed, b \in Mixed, c \in Mixed, s \in Either, t \in Either}

\* All words of four tokens, those of five over the two levels that mix.
ShortWords == WordsOver(Kinds, 4) \cup WordsOver(Mixed, 5) \cup Groups

Filters(words) == {w \in words : w = <<>> \/ Derives(w)[Whole(w)]}

\* Sorts: every combination of SortColumn and SortFn.
Directed == ("title" :> {"column"}) @@ ("year" :> {"column"}) @@ ("score" :> {"fn"})
          @@ ("rank" :> {"column", "fn"}) @@ ("memo" :> {})

Parts == [sign : {"", "+", "-"}, name : DOMAIN Directed \cup {"", "unknown"}]
Asked == UNION {[1 .. n -> Parts] : n \in 0 .. 2}
         \cup [1 .. 3 -> [sign : {"", "-"}, name : {"title", "year", "score"}]]

Entry(id, t, y, s, r, is) ==
    [id |-> id, title |-> t, year |-> y, score |-> s, rank |-> r, memo |-> 0, is |-> is]

\* What a row makes of a comparison in SQL and of one in memory.
Is(d, m) == [f \in Kinds |-> IF f = "db" THEN d ELSE IF f = "mem" THEN m ELSE TRUE]
Plain == Is(TRUE, TRUE)

Request(q, s, rows, op, limit) == [q |-> q, s |-> s, rows |-> rows, op |-> op, limit |-> limit]

\* Find without a limit and page by page, First.
Asks == {<<"find", 0>>, <<"find", 1>>, <<"find", 2>>, <<"first", 0>>}
Whatever == {<<"find", 0>>, <<"first", 0>>}

\* Rows that tie in some fields and differ in others.
Rows == {{Entry(1, 0, 0, 0, 0, Plain), Entry(2, 0, 1, 0, 1, Plain), Entry(3, 1, 0, 1, 0, Plain)},
         {Entry(1, 1, 1, 1, 1, Plain), Entry(2, 1, 0, 0, 1, Plain), Entry(3, 0, 1, 1, 0, Plain)},
         {Entry(1, 1, 1, 0, 0, Plain), Entry(2, 0, 1, 1, 1, Plain), Entry(3, 1, 0, 1, 1, Plain)},
         {Entry(1, 0, 0, 1, 1, Plain), Entry(2, 0, 0, 0, 1, Plain)}, {}}

\* Every way three rows can match.
Rated == {{Entry(1, 0, 1, 0, 0, a), Entry(2, 1, 0, 1, 0, b), Entry(3, 0, 0, 1, 0, c)} :
            a, b, c \in {Is(d, m) : d, m \in BOOLEAN}}

By(name) == [sign |-> "", name |-> name]
Down(name) == [sign |-> "-", name |-> name]

\* Filters and no sort; sorts and no filter; both.
Lookups ==
    {Request(w, <<>>, {}, "find", 0) : w \in ShortWords}
    \cup {Request(w, <<>>, {Entry(1, 0, 0, 0, 0, is)}, a[1], a[2]) :
            w \in Filters(ShortWords), is \in [Kinds -> BOOLEAN], a \in Whatever}
Listings == {Request(<<>>, s, rows, a[1], a[2]) : s \in Asked, rows \in Rows, a \in Asks}
Searches ==
    {Request(q, s, rows, a[1], a[2]) :
        q \in {<<"mem">>, <<"db", "SEMI", "mem">>, <<"db", "COMMA", "mem">>},
        s \in {<<>>, <<By("title")>>, <<Down("title"), By("year")>>, <<By("score")>>,
               <<By("year"), Down("score")>>},
        rows \in Rated, a \in Asks}

Requests == Lookups \cup Listings \cup Searches

\* The filters of an OR or an AND, asked of one row.
Pairs == {Request(w, <<>>, {Entry(1, 0, 0, 0, 0, Is(d, m))}, "find", 0) :
            w \in Filters(WordsOver(Mixed, 3)), d, m \in BOOLEAN}

=============================================================================
