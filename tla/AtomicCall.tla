----------------------------- MODULE AtomicCall -----------------------------
(***************************************************************************)
(* What a caller of repositories.WithTransactionRetryContext relies on:    *)
(* the writes of the body take effect together, once or not at all, and    *)
(* the error tells which, except for one that leaves it open.              *)
(***************************************************************************)
EXTENDS Naturals

CONSTANT Write

VARIABLES
    durable,    \* durable[w]: how often write w has taken effect
    result      \* what the call returned

\* Errors after which nothing has taken effect: the caller may call again.
Clean == {"cancelled", "retryable", "panic"}

\* A connection may break while COMMIT is answered.
Errors == Clean \cup {"fatal"}

Nothing == durable = [w \in Write |-> 0]

Init == Nothing /\ result = "none"

Apply ==
    /\ result = "none" /\ Nothing
    /\ durable' = [w \in Write |-> 1]
    /\ result' \in {"none", "ok"}

Fail ==
    /\ result = "none"
    /\ result' \in Errors
    /\ result' \in Clean => Nothing
    /\ UNCHANGED durable

Next == Apply \/ Fail

Spec == Init /\ [][Next]_<<durable, result>>

=============================================================================
