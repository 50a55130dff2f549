SPECIFICATION Spec
CONSTANTS
    Mgr = {m1, m2}
    NoHost = NoHost
    HostOf <- HostPerMgr
    Lease = 8
    Period = 2
    Delay = 1
    Drain = 1
    Faults = {"refused", "lost", "start", "crash"}
    MaxFaults = 1
    MaxStalls = 0
INVARIANT SingleInstanceRunner
