-------------------------- MODULE MCSingleInstance --------------------------
(* Instances of SingleInstance for TLC. *)
EXTENDS SingleInstance

\* Every process on a host of its own.
HostPerMgr == [m \in Mgr |-> m]

\* All processes on one host (the api and the worker preset side by side).
OneHost == [m \in Mgr |-> "host"]

\* Behaviours with faults and behaviours with a stall, not both at once.
FaultsOrStall == stalls = 0 \/ faults = 0

=============================================================================
