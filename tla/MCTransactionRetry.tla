------------------------- MODULE MCTransactionRetry -------------------------
(* Instances of TransactionRetry for TLC. *)
EXTENDS TransactionRetry

Setup(a, k, r) == [adapter |-> a, maxRetries |-> k, retrying |-> r]

\* Every body on PostgreSQL, bodies of plain SaveTx on MySQL; no retry asked
\* for (0), the last attempt is the first (1), and room for a retry (3).
KeepTransaction ==
    {Setup("postgres", k, r) : k \in {0, 1, 3}, r \in SUBSET Write}
        \cup {Setup("mysql", k, {}) : k \in {0, 1, 3}}

\* The second of the saves is a SaveRetryTx.
MySQLRetrying == {Setup("mysql", 1, {2})}

=============================================================================
