SPECIFICATION FairSpec
CONSTANTS
    Mgr = {m1, m2}
    NoHost = NoHost
    HostOf <- HostPerMgr
    Lease = 9
    Period = 3
    Delay = 1
    Drain = 1
    Faults = {"refused", "lost", "start", "crash"}
    MaxFaults = 1
    MaxStalls = 1
CONSTRAINT FaultsOrStall
PROPERTY StopReturns
PROPERTY Failover
PROPERTY SplitBrainHeals
