CONSTANTS
    Waiters = {w1, w2}
    Signallers = {s1}
    Nobody = Nobody
    MaxCount = 2
SPECIFICATION ExEventSpec
INVARIANT NobodyWaitsOnSignaledEvent
