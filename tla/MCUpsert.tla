------------------------------ MODULE MCUpsert ------------------------------
(* Instances of Upsert for TLC. *)
EXTENDS Upsert, TLC

CONSTANTS c1, c2, k1, k2

Nobody == [op |-> "none", keys |-> <<>>]
Seed == [op |-> "upsert", keys |-> <<k1, k2>>]
Upsert1 == [op |-> "upsert", keys |-> <<k1>>]
First1 == [op |-> "first", keys |-> <<k1>>]

Setup(u, j1, j2) == [unique |-> u, job |-> (c1 :> j1 @@ c2 :> j2)]

\* One seeder on the table as the migrations create it; several callers, two
\* seeders among them, with a unique index.
Sound ==
    {Setup(FALSE, Seed, Nobody), Setup(TRUE, Seed, Seed),
     Setup(TRUE, First1, First1), Setup(TRUE, Upsert1, First1)}

\* Two seeders on the table as the migrations create it.
TwoSeeders == {Setup(FALSE, Seed, Seed)}

=============================================================================
