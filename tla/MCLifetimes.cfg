CONSTANTS
    CPUs = {c1}
    Threads = {t1, t2, t3}
    Waiters = {t1, t2}
    Mortal = {t1, t2, t3}
    Killable = {t3}
    Nobody = Nobody
    ProcessThreads = {main, p2, p3}
    Main = main
    Creator = creator
    Spawners = {main, p2, p3}
    EarlyExit = FALSE
    MayFail = TRUE
    MayTerminate = TRUE
SPECIFICATION LifetimesSpec
INVARIANTS ProcessRefCntExact TerminationIsFinal RefCntExact
PROPERTIES WaitReturns ProcessIsReclaimed ReadyThreadsRun
CHECK_DEADLOCK FALSE
