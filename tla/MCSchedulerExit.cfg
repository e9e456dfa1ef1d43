CONSTANTS
    CPUs = {c1, c2}
    Threads = {t1, t2, t3}
    Waiters = {t1, t2, t3}
    Mortal = {t1, t2, t3}
    Killable = {}
    Nobody = Nobody
SYMMETRY Symmetry
SPECIFICATION SchedulerSpec
INVARIANT RunningThreadIsReferenced
