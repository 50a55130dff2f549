----------------------------- MODULE RunnerLock -----------------------------
(***************************************************************************)
(* What the worker service relies on when it gives a runner to a           *)
(* _SingleInstanceManager: one process at a time holds the lock, a runner  *)
(* begins only while its process does, and a lock is not let go of before  *)
(* the runner has ended -- unless the process was asked to stop.  Nothing  *)
(* is promised once a process has slept through a deadline.                *)
(***************************************************************************)
CONSTANT Mgr

VARIABLES
    holder,     \* who holds the lock
    working,    \* whose runner works
    leaving,    \* who was asked to stop
    overslept   \* a process has missed a deadline

Init == holder = {} /\ working = {} /\ leaving = {} /\ overslept = FALSE

Take(m) ==
    /\ holder = {} /\ m \notin working
    /\ holder' = {m} /\ UNCHANGED <<working, leaving>>

Work(m) ==
    /\ m \in holder /\ m \notin working
    /\ working' = working \cup {m} /\ UNCHANGED <<holder, leaving>>

Give(m) ==
    /\ m \in holder /\ (m \in working => m \in leaving)
    /\ holder' = holder \ {m} /\ UNCHANGED <<working, leaving>>

\* The runner has ended, or its process has: the lock goes with it.
Quit(m) ==
    /\ m \in working
    /\ holder' = holder \ {m} /\ working' = working \ {m} /\ UNCHANGED leaving

Ask(m) == leaving' = leaving \cup {m} /\ UNCHANGED <<holder, working>>

Return(m) ==
    /\ m \notin holder \cup working
    /\ leaving' = leaving \ {m} /\ UNCHANGED <<holder, working>>

Promised ==
    /\ ~overslept'
    /\ \E m \in Mgr : Take(m) \/ Work(m) \/ Give(m) \/ Quit(m) \/ Ask(m) \/ Return(m)

Next == Promised \/ overslept'

Spec == Init /\ [][Next]_<<holder, working, leaving, overslept>>

=============================================================================
