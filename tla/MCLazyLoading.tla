--------------------------- MODULE MCLazyLoading ---------------------------
(* Instances of LazyLoading for TLC. *)
EXTENDS LazyLoading, TLC

All == {"lazy", "batch", "composite", "compositeBatch"}

\* The default querier of the repositories does everything; a type may have
\* one of its own that does less.
Queriers == {[own |-> [owner |-> o, child |-> c], default |-> All] :
                o \in {None, {"lazy"}}, c \in {None, {"lazy", "composite"}}}
            \cup {[own |-> [owner |-> None, child |-> None], default |-> None]}

Setting(g) == [grp |-> g]
Tag(s, g, on) == [setting |-> s, grp |-> g, on |-> on]

\* Settings 1 and 2 with tags 3 and 4 ...
Settings == [start |-> (1 :> Setting(5)) @@ (2 :> Setting(5)) @@ (3 :> Tag(1, 5, 1)) @@ (4 :> Tag(2, 5, 1)),
             rows |-> [i \in 1 .. 4 |-> IF i <= 2 THEN {Gone} \cup {Setting(g) : g \in {Nil, 0, 6}}
                                        ELSE {Gone, Tag(1, 6, 1), Tag(1, 5, 0), Tag(2, 5, 1)}]]

\* ... and tags 1 and 2 of the settings 3 and 4.
Tags == [start |-> (1 :> Tag(3, 5, 1)) @@ (2 :> Tag(3, 5, 1)) @@ (3 :> Setting(5)) @@ (4 :> Setting(6)),
         rows |-> [i \in 1 .. 4 |-> IF i <= 2 THEN {Gone} \cup {Tag(s, 5, 1) : s \in {Nil, 0, 4}}
                                    ELSE {Gone}]]

Eq(c, v) == [op |-> "eq", column |-> c, value |-> v]
Field(kind, fk, refs, scope) == [kind |-> kind, fk |-> fk, refs |-> refs, scope |-> scope]

OfSettings ==
    {Field("many", <<"setting">>, <<>>, {}),
     Field("many", <<"grp">>, <<"grp">>, {}),
     Field("many", <<"grp">>, <<"grp", "ID">>, {}),
     Field("many", <<"setting">>, <<>>, {Eq("on", 1), [op |-> "between", column |-> "grp", value |-> 0]}),
     Field("many", <<"grp", "setting">>, <<"grp", "ID">>, {}),
     Field("one", <<"setting">>, <<>>, {})}

OfTags == {Field("belongs", <<"setting">>, <<>>, {})}

Fields == {f @@ q @@ Settings : f \in OfSettings, q \in Queriers}
          \cup {f @@ q @@ Tags : f \in OfTags, q \in Queriers}

=============================================================================
