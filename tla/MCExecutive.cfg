CONSTANTS
    Threads = {t1, t2, t3, t4}
    Nobody = Nobody
    MaxRecursivityDepth = 2
    Killable = {t1, t2}
    Waiters = {w1, w2, w3}
    Signallers = {s1, s2}
    MaxCount = 3
    CPUs = {c1, c2}
    v1 = v1
    v2 = v2
SPECIFICATION ExecutiveSpec
INVARIANTS MutexExclusion HandOver BlockedThreadsAreListed OnePassPerSignal TransferAsserts
PROPERTIES AnyWaiterGetsMutex AnyBlockedThreadIsWoken AnyRequestReturnsUnlessMissed
CHECK_DEADLOCK FALSE
