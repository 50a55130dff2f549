SPECIFICATION Spec
CONSTANTS
    Mgr = {m1, m2}
    NoHost = NoHost
    HostOf <- HostPerMgr
    Lease = 8
    Period = 2
    Delay = 1
    Drain = 1
    Faults = {"refused", "lost", "start", "crash"}
    MaxFaults = 2
    MaxStalls = 1
INVARIANT TypeOK
INVARIANT LeaseExclusive
INVARIANT RunnerExclusive
INVARIANT RunnerFollowsLock
INVARIANT NoLeakWithoutFault
PROPERTY NoTakeover
PROPERTY LockSpec
