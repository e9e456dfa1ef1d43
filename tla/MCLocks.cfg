CONSTANTS
    CPUs = {c1, c2, c3, c4}
    MaxWord = 5
    NoCpu = NoCpu
    MaxRecursivityDepth = 2
    LockCPUs = {c1, c2, c3}
    MonitorSupport = TRUE
SPECIFICATION LocksSpec
INVARIANTS Exclusion RecBookkeeping InterruptSafe
PROPERTIES WritersHavePriority ImplementsRwSpinlock ImplementsLock SomeoneGetsIt
